---------------------------- MODULE Spec2Model ----------------------------
(***************************************************************************)
(* Verification model of the memory subsystem of unifai-sdk-py:            *)
(*   - MemoryStream + LocalStorage (write-behind persistence),             *)
(*   - WorkingMemory (bounded step buffer),                                *)
(*   - ChromaMemoryManager.get_memories + MemoryRankPlugin.rerank,         *)
(*   - ImportanceCalculator (time decay / relevance / provider score),     *)
(*   - the on-disk record format of LocalStorage.                          *)
(* Each component has its own specification over its own variables; the    *)
(* other components' variables are left unchanged by its actions.          *)
(***************************************************************************)
EXTENDS Integers, Sequences, FiniteSets, TLC

(***************************************************************************)
(* Bounds of the model                                                     *)
(***************************************************************************)
NumIds == 2          \* record ids 1..NumIds
MaxSaves == 3        \* save calls issued by clients in one behaviour
MaxMaxSize == 2      \* WorkingMemory.max_size ranges over 1..MaxMaxSize
MaxSteps == 4        \* add_step calls in one behaviour
MaxN == 3            \* get_recent_steps(n) is called with n in 0..MaxN
MaxOver == 3         \* weights assigned range from -MaxOver/10 to 1 + MaxOver/10
MaxRecords == 3      \* records stored in the Chroma collection
MaxPlugins == 2      \* plugins registered with the ChromaMemoryManager
MaxCount == 2        \* get_memories is called with count in 1..MaxCount
MaxMems == 3         \* long-term memories handed to _filter_and_rank_memories
MaxStoObjs == 3      \* Memory objects saved or loaded in one behaviour of LocalStorage alone
MaxCacheSize == 2    \* MemoryStream(cache_size=n) with n in 1..MaxCacheSize
MaxQueued == 2       \* reads are issued while the save queue holds fewer entries than this
MaxTasks == 3        \* tasks that make the first use of a MemoryStream
MaxCands == 7        \* candidates handed to ToolSimilarityPlugin.calculate_scores
MaxAdds == 4         \* add_plugin calls that succeed in one behaviour
MaxFaults == 1       \* file writes that raise in one behaviour
MaxOpenFiles == 2    \* LocalStorage(max_open_files=n) with n in 0..MaxOpenFiles
MaxLoads == 2        \* load_memory calls gathered by one list_all_memories
MaxSeqLen == 3       \* length of a tool-name sequence
MaxFacts == 3        \* fact memories in the collection when consolidation starts

(***************************************************************************)
(* Program constants                                                       *)
(***************************************************************************)
batch_size == 100        \* MemoryStream._batch_size
max_batch_size == 100    \* LocalStorage.max_batch_size (default)
default_max_open_files == 256
default_cache_size == 1000   \* MemoryStream.__init__(cache_size=1000)

\* Weights, plugin scores and similarities are counted in tenths: 1.0 is Scale.
Scale == 10

Ids == 1..NumIds
MaxObjs == NumIds + MaxSaves
Objs == 1..MaxObjs
None == 0
NoFile == -1         \* os.path.exists(path) is False
EmptyFile == -2      \* the file was opened with "w" and nothing written yet
Corrupt == -3        \* the file holds text that is not a serialized record

Min(a, b) == IF a <= b THEN a ELSE b
Max(a, b) == IF a >= b THEN a ELSE b

VARIABLES
  \* ---- Memory objects (unifai/agent/memory/base.py, class Memory) ----
  nobj,          \* number of Memory objects constructed so far
  objId,         \* obj -> Memory.id
  objVal,        \* obj -> the object's current field values (a version number)
  awaited,       \* objs whose lru_cache'd to_dict coroutine was already awaited
  \* ---- MemoryStream ----
  memories,      \* MemoryStream.memories: id -> obj or None
  stream_cache,  \* MemoryStream._cache: the keys in insertion order
  save_queue,    \* MemoryStream._save_queue
  initialized,   \* MemoryStream._initialized
  spc, sbatch,   \* _start_save_worker: position and its local batch
  \* ---- LocalStorage ----
  write_queue,   \* LocalStorage._write_queue
  memory_cache,  \* LocalStorage._memory_cache: id -> obj or None
  files,         \* persist_directory: id -> value written, NoFile or EmptyFile
  wpc, wbatch, wsnap,  \* _start_write_worker / _batch_write: position, batch, dict
  umi,           \* update_memory_immediately call in flight
  \* ---- history (not program state) ----
  issued,        \* number of save calls issued so far
  lastIssued,    \* id -> sequence number of the last save call issued for it
  to_dict_failed, \* some to_dict call has raised (coroutine awaited twice)
  \* ---- WorkingMemory (unifai and agiverse agent/memory/working_memory.py) ----
  wm_variant,    \* "unifai" or "agiverse": which package's WorkingMemory
  wm_manager,    \* self.memory_manager is set
  max_size,      \* WorkingMemory.max_size
  steps,         \* WorkingMemory.steps (steps are numbered in creation order)
  wm_added,      \* number of MemoryStep objects created so far
  wm_pc,         \* position of a running unifai _compress_steps
  wm_pending,    \* its memories_to_compress not yet passed to add_memory
  wm_longterm,   \* steps passed to memory_manager.add_memory so far
  wm_last,       \* the WorkingMemory call that returned last
  wm_n,          \* argument of the last get_recent_steps call
  wm_recent,     \* result of the last get_recent_steps call
  \* ---- MemoryRankPlugin weight (unifai/memory/plugin.py, tool_plugin.py) ----
  pw_exists,     \* a plugin object has been constructed
  pw_weight,     \* MemoryRankPlugin._weight, in tenths
  pw_last,       \* the last constructor call or weight assignment and its outcome
  \* ---- ChromaMemoryManager.get_memories (unifai/memory/chroma.py) ----
  collection,    \* the stored records, in storage order
  plugins,       \* ChromaMemoryManager.plugins
  rk_pc,         \* position of the get_memories call
  rk_count,      \* its count argument
  rk_threshold,  \* its threshold argument (tenths)
  rk_blank,      \* its content argument is blank (no query embedding)
  rk_base,       \* base_memories as returned by the base phase
  rk_cands,      \* the local variable memories: <<[id, num]>>, similarity num/rk_den
  rk_den,        \* common denominator of the similarities in rk_cands
  rk_i,          \* index of the next plugin of the loop
  rk_prev,       \* memories before the last plugin call
  rk_prevden,    \* and their denominator
  rk_sorted,     \* the list the last rerank sorted in place, before truncation
  rk_scores,     \* what the last calculate_scores returned
  rk_outcome,    \* how the last plugin call ended
  rk_result,     \* what get_memories returned
  \* ---- ImportanceCalculator and _filter_and_rank_memories ----
  all_memories,      \* the long-term memories to rank, in list order
  imp_query,         \* embedding of the current (working) memory
  imp_pc,            \* "idle", "ranked" or "scored"
  imp_outcome,       \* how the call ended
  imp_raw,           \* time_weight*t + relevance_weight*r before clamping
  time_factor,       \* what _calculate_time_decay returned, one fraction per memory
  memory_importance, \* the list memory_importance
  top_memories,      \* indices into all_memories of the memories returned
  prov_response,     \* the provider's response to 'agent.importance'
  prov_score,        \* what calculate_memory_importance returned
  \* ---- one record's way to disk and back (Memory, LocalStorage) ----
  d_pc,          \* "none", "constructed", "written", "write_failed" or "loaded"
  d_rec,         \* the Memory object r
  d_awaited,     \* r.to_dict() has been awaited
  d_exists,      \* the file <id>.json exists
  d_file,        \* the JSON document in the file
  d_loaded,      \* the Memory object load_memory built on a cold cache
  \* ---- serialize_memory / deserialize_memory (unifai/memory/utils.py) ----
  v_pc,          \* "idle", "serialized", "deserialized" or "raised"
  v_rec,         \* the record r of the ChromaMemoryManager model
  v_meta,        \* serialize_memory(r)
  v_out,         \* deserialize_memory(str(r.id), serialize_memory(r), r.embedding)
  \* ---- LocalStorage.load_memory / delete_memory, MemoryStream.get_memory ----
  ld,            \* the load_memory call in flight: position, id, content read
  del_post,      \* the last delete_memory call: its id, result and what held on return
  look,          \* the last lookup that missed: what it returned and whether anything changed
  cache_size,    \* MemoryStream._cache_size
  \* ---- tasks making the first use of a MemoryStream (ensure_initialized) ----
  in_pc,         \* per task: "idle", "waiting" (for the lock), "loading", "done"
  in_lock,       \* the task holding _initialization_lock, or None
  writer_tasks,  \* storage write-worker tasks created so far
  save_tasks,    \* stream save-worker tasks created so far
  store_loads,    \* times the backing store was listed and loaded
  \* ---- ToolSimilarityPlugin.calculate_scores ----
  ts_memories,   \* the candidate list: tools (names in order) and created_at
  ts_pc,         \* "idle", "scored"
  ts_scores,      \* the returned scores, one fraction per candidate
  \* ---- MemoryManager.add_memory and EmbeddingGenerator.get_embedding ----
  mm_content,    \* the content passed to add_memory
  mm_type,       \* the memory_type passed to add_memory
  mm_provider,   \* what the embedding provider does on this call
  mm_pc,         \* "idle", "embedded", "constructed", "scored", "done", "raised"
  mm_embedding,  \* what get_embedding returned
  mm_memory,     \* the Memory under construction
  mm_stream,      \* the records handed to memory_stream.add_memory
  \* ---- ChromaMemoryManager.add_plugin / remove_plugin ----
  pr_plugins,    \* ChromaMemoryManager.plugins: the plugins' names, in list order
  pr_time,       \* history: name -> number of the add_plugin call that registered it, or 0
  pr_clock,      \* history: add_plugin calls that succeeded so far
  pr_last,       \* the last call: its name, argument, the list before it, whether it raised
  pr_applied,     \* the plugins the last get_memories called rerank on, in call order
  \* ---- history of the storage write worker (not program state) ----
  wr_written,    \* the Memory objects whose file write completed
  wr_failed,     \* the Memory objects whose own file write raised
  wr_batchfail,   \* the Memory objects that were in a batch when its write raised
  \* ---- LocalStorage.list_all_memories and the initialize that uses it ----
  ls_last,        \* the last batch read: kind, raised or not, ids returned, ids readable
  \* ---- the file semaphore of LocalStorage ----
  max_open_files,  \* LocalStorage(max_open_files=n)
  file_semaphore,  \* the value of self._file_semaphore
  fh_pc,            \* where each task that opens a file is
  \* ---- ToolSimilarityPlugin._calculate_sequence_similarity ----
  sq_seq1,       \* the first tool-name sequence
  sq_seq2,       \* the second tool-name sequence
  sq_pc,         \* "idle" or "returned"
  sq_result,      \* the value returned, as a fraction
  \* ---- consolidate_fact_memories (unifai/memory/examples/reflector_memory.py) ----
  all_facts,     \* the fact memories get_memories_by_type returned: their texts
  co_helpers,    \* whether calculate_similarity and merge_memories are defined
  co_pc,         \* "idle", "outer", "merge", "removing", "raised" or "done"
  co_i,          \* the index of fact1 in the outer loop
  to_remove,     \* indices of the facts found similar to an earlier one
  similar_facts, \* the indices of fact1 and of the facts similar to it
  co_k,          \* the index in similar_facts of the next fact to remove
  co_stored,     \* the facts of all_facts still in the collection
  co_merged,     \* the fact1 indices whose merged record is in the collection
  co_log,         \* history: the remove_memory and create_memory calls that completed
  \* ---- EmbeddingGenerator.get_embedding under its retry decorator ----
  em_outcomes,   \* what model_manager.embedding does on its 1st, 2nd, 3rd call
  em_pc,         \* "idle", "returned" or "raised"
  em_calls,      \* calls of model_manager.embedding made
  em_result      \* the embedding returned to the caller

storeVars == <<nobj, objId, objVal, awaited, memories, stream_cache, save_queue,
               initialized, spc, sbatch, write_queue, memory_cache, files,
               wpc, wbatch, wsnap, umi, issued, lastIssued, to_dict_failed>>

wmVars == <<wm_variant, wm_manager, max_size, steps, wm_added, wm_pc, wm_pending,
            wm_longterm, wm_last, wm_n, wm_recent>>

pwVars == <<pw_exists, pw_weight, pw_last>>

rkVars == <<collection, plugins, rk_pc, rk_count, rk_threshold, rk_blank, rk_base,
            rk_cands, rk_den, rk_i, rk_prev, rk_prevden, rk_sorted, rk_scores,
            rk_outcome, rk_result>>

impVars == <<all_memories, imp_query, imp_pc, imp_outcome, imp_raw, time_factor,
             memory_importance, top_memories, prov_response, prov_score>>

diskVars == <<d_pc, d_rec, d_awaited, d_exists, d_file, d_loaded>>

vecVars == <<v_pc, v_rec, v_meta, v_out>>

stoVars == <<ld, del_post, look, cache_size>>

initVars == <<in_pc, in_lock, writer_tasks, save_tasks, store_loads>>

toolVars == <<ts_memories, ts_pc, ts_scores>>

mmVars == <<mm_content, mm_type, mm_provider, mm_pc, mm_embedding, mm_memory,
           mm_stream>>

regVars == <<pr_plugins, pr_time, pr_clock, pr_last, pr_applied>>

wrVars == <<wr_written, wr_failed, wr_batchfail>>

lsVars == <<ls_last>>

semVars == <<max_open_files, file_semaphore, fh_pc>>

seqVars == <<sq_seq1, sq_seq2, sq_pc, sq_result>>

consVars == <<all_facts, co_helpers, co_pc, co_i, to_remove, similar_facts, co_k,
             co_stored, co_merged, co_log>>

emVars == <<em_outcomes, em_pc, em_calls, em_result>>

vars == <<storeVars, wmVars, pwVars, rkVars, impVars, diskVars, vecVars, stoVars,
          initVars,
          toolVars,
          mmVars,
          regVars,
          wrVars,
          lsVars,
          semVars,
          seqVars,
          consVars,
          emVars>>

Others_Store == UNCHANGED <<wmVars, pwVars, rkVars, impVars, diskVars, vecVars, stoVars, initVars, toolVars, mmVars, regVars, wrVars, lsVars, semVars, seqVars, consVars, emVars>>
Others_WM == UNCHANGED <<storeVars, pwVars, rkVars, impVars, diskVars, vecVars, stoVars, initVars, toolVars, mmVars, regVars, wrVars, lsVars, semVars, seqVars, consVars, emVars>>
Others_PW == UNCHANGED <<storeVars, wmVars, rkVars, impVars, diskVars, vecVars, stoVars, initVars, toolVars, mmVars, regVars, wrVars, lsVars, semVars, seqVars, consVars, emVars>>
Others_RK == UNCHANGED <<storeVars, wmVars, pwVars, impVars, diskVars, vecVars, stoVars, initVars, toolVars, mmVars, regVars, wrVars, lsVars, semVars, seqVars, consVars, emVars>>
Others_IMP == UNCHANGED <<storeVars, wmVars, pwVars, rkVars, diskVars, vecVars, stoVars, initVars, toolVars, mmVars, regVars, wrVars, lsVars, semVars, seqVars, consVars, emVars>>
Others_Disk == UNCHANGED <<storeVars, wmVars, pwVars, rkVars, impVars, vecVars, stoVars, initVars, toolVars, mmVars, regVars, wrVars, lsVars, semVars, seqVars, consVars, emVars>>
Others_Vec == UNCHANGED <<storeVars, wmVars, pwVars, rkVars, impVars, diskVars, stoVars, initVars, toolVars, mmVars, regVars, wrVars, lsVars, semVars, seqVars, consVars, emVars>>
Others_Sto == UNCHANGED <<wmVars, pwVars, rkVars, impVars, diskVars, vecVars, initVars, toolVars, mmVars, regVars, wrVars, lsVars, semVars, seqVars, consVars, emVars>>
Others_Init == UNCHANGED <<wmVars, pwVars, rkVars, impVars, diskVars, vecVars, stoVars, toolVars, mmVars, regVars, wrVars, lsVars, semVars, seqVars, consVars, emVars>>
Others_Tool == UNCHANGED <<storeVars, wmVars, pwVars, rkVars, impVars, diskVars, vecVars, stoVars, initVars, mmVars, regVars, wrVars, lsVars, semVars, seqVars, consVars, emVars>>
Others_MM == UNCHANGED <<storeVars, wmVars, pwVars, rkVars, impVars, diskVars, vecVars, stoVars, initVars, toolVars, regVars, wrVars, lsVars, semVars, seqVars, consVars, emVars>>
Others_Reg == UNCHANGED <<storeVars, wmVars, pwVars, rkVars, impVars, diskVars, vecVars, stoVars, initVars, toolVars, mmVars, wrVars, lsVars, semVars, seqVars, consVars, emVars>>
Others_Wr == UNCHANGED <<wmVars, pwVars, rkVars, impVars, diskVars, vecVars, stoVars, initVars, toolVars, mmVars, regVars, lsVars, semVars, seqVars, consVars, emVars>>
Others_Ls == UNCHANGED <<wmVars, pwVars, rkVars, impVars, diskVars, vecVars, stoVars, initVars, toolVars, mmVars, regVars, wrVars, semVars, seqVars, consVars, emVars>>
Others_Sem == UNCHANGED <<storeVars, wmVars, pwVars, rkVars, impVars, diskVars, vecVars, stoVars, initVars, toolVars, mmVars, regVars, wrVars, lsVars, seqVars, consVars, emVars>>
Others_Seq == UNCHANGED <<storeVars, wmVars, pwVars, rkVars, impVars, diskVars, vecVars, stoVars, initVars, toolVars, mmVars, regVars, wrVars, lsVars, semVars, consVars, emVars>>
Others_Cons == UNCHANGED <<storeVars, wmVars, pwVars, rkVars, impVars, diskVars, vecVars, stoVars, initVars, toolVars, mmVars, regVars, wrVars, lsVars, semVars, seqVars, emVars>>
Others_Em == UNCHANGED <<storeVars, wmVars, pwVars, rkVars, impVars, diskVars, vecVars, stoVars, initVars, toolVars, mmVars, regVars, wrVars, lsVars, semVars, seqVars, consVars>>

(***************************************************************************)
(* MemoryStream / LocalStorage                                             *)
(***************************************************************************)

\* an _update_cache that removes the newest entry on overflow
UpdateCache_EvictsNewest(cache, id) ==
  LET c == IF \E k \in 1..Len(cache) : cache[k] = id THEN cache
           ELSE Append(cache, id)
  IN IF Len(c) > cache_size THEN SubSeq(c, 1, Len(c) - 1) ELSE c

\* OrderedDict assignment followed by the size check of _update_cache.
UpdateCache(cache, id) ==
  LET c == IF \E k \in 1..Len(cache) : cache[k] = id THEN cache
           ELSE Append(cache, id)
  IN IF Len(c) > cache_size THEN Tail(c) ELSE c

\* Memory.to_dict: functools.lru_cache returns the same coroutine object for
\* the same Memory; awaiting it a second time raises RuntimeError.
ToDictRaises(o) == o \in awaited

\* no update_memory_immediately call is in flight
UmiIdle == [pc |-> "idle", obj |-> None, snap |-> None]

StoreRest ==
  /\ nobj = 0
  /\ objId = [o \in Objs |-> None]
  /\ objVal = [o \in Objs |-> 0]
  /\ awaited = {}
  /\ memories = [i \in Ids |-> None]
  /\ stream_cache = <<>>
  /\ save_queue = <<>>
  /\ initialized = FALSE
  /\ spc = "off" /\ sbatch = <<>>
  /\ write_queue = <<>>
  /\ memory_cache = [i \in Ids |-> None]
  /\ wpc = "off" /\ wbatch = <<>> /\ wsnap = None
  /\ umi = UmiIdle
  /\ issued = 0
  /\ lastIssued = [i \in Ids |-> 0]
  /\ to_dict_failed = FALSE

\* the persist directory may hold records of an earlier run
StoreInit == files \in [Ids -> {NoFile, 0}] /\ StoreRest
StoreIdle == files = [i \in Ids |-> NoFile] /\ StoreRest

\* ensure_initialized (first use): storage.initialize() starts the write worker,
\* initialize() loads every stored record (list_all_memories -> load_memory ->
\* from_dict) and runs _process_memory on it, which awaits to_dict once; then
\* the save worker is started.
Loaded == {i \in Ids : files[i] # NoFile}
LoadObj(i) == nobj + Cardinality({j \in Loaded : j <= i})
RECURSIVE CacheAll(_, _)
CacheAll(cache, S) ==
  IF S = {} THEN cache
  ELSE LET i == CHOOSE x \in S : \A y \in S : x <= y
       IN CacheAll(UpdateCache(cache, i), S \ {i})

InitializeEffect ==
  /\ nobj' = nobj + Cardinality(Loaded)
  /\ objId' = [o \in Objs |-> IF \E i \in Loaded : LoadObj(i) = o
                               THEN CHOOSE i \in Loaded : LoadObj(i) = o
                               ELSE objId[o]]
  /\ objVal' = [o \in Objs |-> IF \E i \in Loaded : LoadObj(i) = o
                                THEN files[CHOOSE i \in Loaded : LoadObj(i) = o]
                                ELSE objVal[o]]
  /\ memory_cache' = [i \in Ids |-> IF i \in Loaded THEN LoadObj(i) ELSE memory_cache[i]]
  /\ memories' = [i \in Ids |-> IF i \in Loaded THEN LoadObj(i) ELSE memories[i]]
  /\ stream_cache' = CacheAll(stream_cache, Loaded)
  /\ awaited' = awaited \cup {LoadObj(i) : i \in Loaded}
  /\ initialized' = TRUE
  /\ wpc' = "get"
  /\ spc' = "get"
  /\ UNCHANGED <<save_queue, sbatch, write_queue, files, wbatch, wsnap, umi,
                 issued, lastIssued, to_dict_failed>>

EnsureInitialized ==
  /\ ~initialized
  /\ InitializeEffect
  /\ Others_Store

\* The Memory object a client passes to a save call: a newly constructed one
\* (o = nobj + 1, with id i) or an existing one the client has modified.
\* In both cases the object now carries the values of save number issued + 1.
SaveArg(o, i) ==
  /\ issued < MaxSaves
  /\ o \in 1..Min(nobj + 1, MaxObjs)
  /\ IF o = nobj + 1 THEN i \in Ids ELSE i = objId[o]
  /\ nobj' = Max(nobj, o)
  /\ objId' = [objId EXCEPT ![o] = i]
  /\ objVal' = [objVal EXCEPT ![o] = issued + 1]
  /\ issued' = issued + 1
  /\ lastIssued' = [lastIssued EXCEPT ![i] = issued + 1]

\* MemoryStream.add_memory (after ensure_initialized)
AddMemory ==
  /\ initialized
  /\ \E o \in Objs, i \in Ids :
       /\ SaveArg(o, i)
       /\ memories' = [memories EXCEPT ![i] = o]
       /\ stream_cache' = UpdateCache(stream_cache, i)
       /\ save_queue' = Append(save_queue, o)
  /\ UNCHANGED <<awaited, initialized, spc, sbatch, write_queue, memory_cache,
                 files, wpc, wbatch, wsnap, umi, to_dict_failed>>
  /\ Others_Store

\* MemoryStream.update_memory -> LocalStorage.save_memory
UpdateMemory ==
  /\ \E o \in Objs, i \in Ids :
       /\ SaveArg(o, i)
       /\ memories[i] # None
       /\ memories' = [memories EXCEPT ![i] = o]
       /\ stream_cache' = UpdateCache(stream_cache, i)
       /\ write_queue' = Append(write_queue, o)
  /\ UNCHANGED <<awaited, initialized, spc, sbatch, save_queue, memory_cache,
                 files, wpc, wbatch, wsnap, umi, to_dict_failed>>
  /\ Others_Store

\* _start_save_worker: drain the save queue into a batch (at most batch_size)
SaverTake ==
  /\ spc = "get" /\ save_queue # <<>>
  /\ LET n == Min(Len(save_queue), batch_size)
     IN /\ sbatch' = SubSeq(save_queue, 1, n)
        /\ save_queue' = SubSeq(save_queue, n + 1, Len(save_queue))
  /\ spc' = "batch_save"
  /\ UNCHANGED <<nobj, objId, objVal, awaited, memories, stream_cache, initialized,
                 write_queue, memory_cache, files, wpc, wbatch, wsnap, umi,
                 issued, lastIssued, to_dict_failed>>
  /\ Others_Store

\* _batch_save: asyncio.gather of storage.save_memory(memory), one task each,
\* run in the order of the batch
SaverPut ==
  /\ spc = "batch_save"
  /\ write_queue' = Append(write_queue, Head(sbatch))
  /\ sbatch' = Tail(sbatch)
  /\ spc' = IF Tail(sbatch) = <<>> THEN "get" ELSE "batch_save"
  /\ UNCHANGED <<nobj, objId, objVal, awaited, memories, stream_cache, save_queue,
                 initialized, memory_cache, files, wpc, wbatch, wsnap, umi,
                 issued, lastIssued, to_dict_failed>>
  /\ Others_Store

\* _batch_write, loop body for the head of batch up to aiofiles.open(path, "w"):
\* to_dict (raises when its coroutine was awaited before: the worker's except
\* clause then drops the rest of the batch and sleeps), _serialize_memory, open.
BatchWriteBegin(batch, fl, aw) ==
  IF batch = <<>>
  THEN [pc |-> "get", batch |-> <<>>, snap |-> None, files |-> fl, awaited |-> aw,
        failed |-> FALSE]
  ELSE LET m == Head(batch)
       IN IF m \in aw
          THEN [pc |-> "sleep", batch |-> <<>>, snap |-> None, files |-> fl,
                awaited |-> aw, failed |-> TRUE]
          ELSE [pc |-> "opened", batch |-> batch, snap |-> objVal[m],
                files |-> [fl EXCEPT ![objId[m]] = EmptyFile],
                awaited |-> aw \cup {m}, failed |-> FALSE]

\* _start_write_worker: get from the queue until it is empty or the batch is
\* full, swap the batch out under _write_lock and start _batch_write
WriterTake ==
  /\ wpc = "get" /\ write_queue # <<>>
  /\ LET n == Min(Len(write_queue), max_batch_size)
         r == BatchWriteBegin(SubSeq(write_queue, 1, n), files, awaited)
     IN /\ write_queue' = SubSeq(write_queue, n + 1, Len(write_queue))
        /\ wpc' = r.pc /\ wbatch' = r.batch /\ wsnap' = r.snap
        /\ files' = r.files /\ awaited' = r.awaited
        /\ to_dict_failed' = (to_dict_failed \/ r.failed)
  /\ UNCHANGED <<nobj, objId, objVal, memories, stream_cache, save_queue,
                 initialized, spc, sbatch, memory_cache, umi, issued, lastIssued>>
  /\ Others_Store

\* f.write(json.dumps(serialized_dict)) and the close of the file
WriteFile ==
  /\ wpc = "opened"
  /\ files' = IF files[objId[Head(wbatch)]] = NoFile
               THEN files   \* removed while open: the data goes to the unlinked file
               ELSE [files EXCEPT ![objId[Head(wbatch)]] = wsnap]
  /\ wpc' = "written"
  /\ UNCHANGED <<nobj, objId, objVal, awaited, memories, stream_cache, save_queue,
                 initialized, spc, sbatch, write_queue, memory_cache, wbatch, wsnap,
                 umi, issued, lastIssued, to_dict_failed>>

WriterWrite ==
  /\ WriteFile
  /\ Others_Store

\* self._memory_cache[memory.id] = memory, then the next memory of the batch
WriterNext ==
  /\ wpc = "written"
  /\ memory_cache' = [memory_cache EXCEPT ![objId[Head(wbatch)]] = Head(wbatch)]
  /\ LET r == BatchWriteBegin(Tail(wbatch), files, awaited)
     IN /\ wpc' = r.pc /\ wbatch' = r.batch /\ wsnap' = r.snap
        /\ files' = r.files /\ awaited' = r.awaited
        /\ to_dict_failed' = (to_dict_failed \/ r.failed)
  /\ UNCHANGED <<nobj, objId, objVal, memories, stream_cache, save_queue,
                 initialized, spc, sbatch, write_queue, umi, issued, lastIssued>>
  /\ Others_Store

\* except Exception: print; await asyncio.sleep(1); the loop resumes
WriterWake ==
  /\ wpc = "sleep"
  /\ wpc' = "get"
  /\ UNCHANGED <<nobj, objId, objVal, awaited, memories, stream_cache, save_queue,
                 initialized, spc, sbatch, write_queue, memory_cache, files, wbatch,
                 wsnap, umi, issued, lastIssued, to_dict_failed>>
  /\ Others_Store

\* MemoryStream.update_memory_immediately -> LocalStorage.save_memory_immediately,
\* up to aiofiles.open(path, "w"); to_dict raising ends the call with the error
UpdateImmediatelyStart ==
  /\ umi = UmiIdle
  /\ \E o \in Objs, i \in Ids :
       /\ SaveArg(o, i)
       /\ memories[i] # None
       /\ memories' = [memories EXCEPT ![i] = o]
       /\ stream_cache' = UpdateCache(stream_cache, i)
       /\ IF ToDictRaises(o)
          THEN /\ to_dict_failed' = TRUE
               /\ UNCHANGED <<awaited, files, umi>>
          ELSE /\ to_dict_failed' = to_dict_failed
               /\ awaited' = awaited \cup {o}
               /\ files' = [files EXCEPT ![i] = EmptyFile]
               /\ umi' = [pc |-> "opened", obj |-> o, snap |-> issued + 1]
  /\ UNCHANGED <<save_queue, initialized, spc, sbatch, write_queue, memory_cache,
                 wpc, wbatch, wsnap>>
  /\ Others_Store

UpdateImmediatelyWrite ==
  /\ umi.pc = "opened"
  /\ files' = [files EXCEPT ![objId[umi.obj]] = umi.snap]
  /\ umi' = [umi EXCEPT !.pc = "written"]
  /\ UNCHANGED <<nobj, objId, objVal, awaited, memories, stream_cache, save_queue,
                 initialized, spc, sbatch, write_queue, memory_cache, wpc, wbatch,
                 wsnap, issued, lastIssued, to_dict_failed>>
  /\ Others_Store

UpdateImmediatelyDone ==
  /\ umi.pc = "written"
  /\ memory_cache' = [memory_cache EXCEPT ![objId[umi.obj]] = umi.obj]
  /\ umi' = UmiIdle
  /\ UNCHANGED <<nobj, objId, objVal, awaited, memories, stream_cache, save_queue,
                 initialized, spc, sbatch, write_queue, files, wpc, wbatch, wsnap,
                 issued, lastIssued, to_dict_failed>>
  /\ Others_Store

StoreNext ==
  \/ EnsureInitialized
  \/ AddMemory
  \/ UpdateMemory
  \/ UpdateImmediatelyStart
  \/ UpdateImmediatelyWrite
  \/ UpdateImmediatelyDone
  \/ SaverTake
  \/ SaverPut
  \/ WriterTake
  \/ WriterWrite
  \/ WriterNext
  \/ WriterWake

\* Every queue is empty, both workers wait on their queue, no call is in flight.
Quiescent ==
  /\ initialized
  /\ save_queue = <<>> /\ write_queue = <<>>
  /\ spc = "get" /\ wpc = "get"
  /\ umi = UmiIdle

\* Load(id): LocalStorage.load_memory on the current state (cache hit, else file)
LoadValue(i) ==
  IF memory_cache[i] # None THEN objVal[memory_cache[i]] ELSE files[i]

(***************************************************************************)
(* C1: concurrent saves of one id converge: once every queue is empty and  *)
(* the last batch is flushed, the file and load(id) hold the value of the  *)
(* save that was issued last.  (Stated for the runs in which no to_dict    *)
(* call raised, so that every save call returned normally.)                *)
(***************************************************************************)
C1_SavesConverge ==
  (Quiescent /\ ~to_dict_failed) =>
    \A i \in Ids : lastIssued[i] # 0 =>
      /\ files[i] = lastIssued[i]
      /\ LoadValue(i) = lastIssued[i]

(***************************************************************************)
(* WorkingMemory                                                           *)
(***************************************************************************)

\* Python s[start:] for a list s and an integer start (negative counts from
\* the end and is clipped at 0; note that -0 = 0 is the start of the list)
PySliceFrom(s, start) ==
  LET len == Len(s)
      st  == IF start < 0 THEN Max(len + start, 0) ELSE Min(start, len)
  IN SubSeq(s, st + 1, len)

\* WorkingMemory.get_recent_steps(n) for an integer n: self.steps[-n:]
GetRecentSteps(s, n) == PySliceFrom(s, 0 - n)

WMRest ==
  /\ steps = <<>>
  /\ wm_added = 0
  /\ wm_pc = "idle" /\ wm_pending = <<>> /\ wm_longterm = <<>>
  /\ wm_last = "init" /\ wm_n = 0 /\ wm_recent = <<>>

WMInit ==
  /\ wm_variant \in {"unifai", "agiverse"}
  /\ wm_manager \in BOOLEAN
  /\ max_size \in 1..MaxMaxSize
  /\ WMRest

WMIdle ==
  /\ wm_variant = "unifai" /\ wm_manager = FALSE /\ max_size = 1
  /\ WMRest

\* add_step: build a MemoryStep and append it
WM_AddStep ==
  /\ wm_added < MaxSteps
  /\ wm_added' = wm_added + 1
  /\ steps' = Append(steps, wm_added + 1)
  /\ wm_last' = "add_step"
  /\ UNCHANGED <<wm_variant, wm_manager, max_size, wm_pc, wm_pending, wm_longterm,
                 wm_n, wm_recent>>
  /\ Others_WM

\* _compress_steps where it has no await: agiverse pops the oldest step;
\* unifai without a memory manager returns at once
WM_CompressSteps ==
  /\ \/ wm_variant = "agiverse"
     \/ wm_variant = "unifai" /\ ~wm_manager
  /\ steps' = IF wm_variant = "agiverse" /\ Len(steps) > max_size
              THEN Tail(steps) ELSE steps
  /\ wm_last' = "compress_steps"
  /\ UNCHANGED <<wm_variant, wm_manager, max_size, wm_added, wm_pc, wm_pending,
                 wm_longterm, wm_n, wm_recent>>
  /\ Others_WM

\* unifai _compress_steps with a memory manager: the last max_size steps
\* become memories_to_compress (_step_to_memory does not suspend)
WM_CompressStart ==
  /\ wm_variant = "unifai" /\ wm_manager /\ wm_pc = "idle"
  /\ Len(steps) > max_size
  /\ wm_pending' = PySliceFrom(steps, 0 - max_size)
  /\ wm_pc' = "compressing"
  /\ UNCHANGED <<wm_variant, wm_manager, max_size, steps, wm_added, wm_longterm,
                 wm_last, wm_n, wm_recent>>
  /\ Others_WM

\* compress_memory_content, then memory_manager.add_memory for one memory
WM_CompressPersist ==
  /\ wm_pc = "compressing" /\ wm_pending # <<>>
  /\ wm_longterm' = Append(wm_longterm, Head(wm_pending))
  /\ wm_pending' = Tail(wm_pending)
  /\ UNCHANGED <<wm_variant, wm_manager, max_size, steps, wm_added, wm_pc, wm_last,
                 wm_n, wm_recent>>
  /\ Others_WM

\* compress_memory_content or memory_manager.add_memory raises: the exception
\* leaves _compress_steps, self.steps is not reassigned (taken only while
\* fewer than MaxSteps long-term records exist)
WM_CompressFails ==
  /\ wm_pc = "compressing" /\ wm_pending # <<>>
  /\ Len(wm_longterm) < MaxSteps
  /\ wm_pending' = <<>>
  /\ wm_pc' = "idle"
  /\ wm_last' = "compress_raised"
  /\ UNCHANGED <<wm_variant, wm_manager, max_size, steps, wm_added, wm_longterm,
                 wm_n, wm_recent>>
  /\ Others_WM

\* self.steps = []
WM_CompressFinish ==
  /\ wm_pc = "compressing" /\ wm_pending = <<>>
  /\ steps' = <<>>
  /\ wm_pc' = "idle"
  /\ wm_last' = "compress_steps"
  /\ UNCHANGED <<wm_variant, wm_manager, max_size, wm_added, wm_pending,
                 wm_longterm, wm_n, wm_recent>>
  /\ Others_WM

\* get_recent_steps(n) with an integer n >= 0
WM_GetRecentSteps ==
  /\ \E n \in 0..MaxN :
       /\ wm_n' = n
       /\ wm_recent' = GetRecentSteps(steps, n)
  /\ wm_last' = "get_recent_steps"
  /\ UNCHANGED <<wm_variant, wm_manager, max_size, steps, wm_added, wm_pc,
                 wm_pending, wm_longterm>>
  /\ Others_WM

\* clear
WM_Clear ==
  /\ steps # <<>>
  /\ steps' = <<>>
  /\ wm_last' = "clear"
  /\ UNCHANGED <<wm_variant, wm_manager, max_size, wm_added, wm_pc, wm_pending,
                 wm_longterm, wm_n, wm_recent>>
  /\ Others_WM

WMNext ==
  \/ WM_AddStep
  \/ WM_CompressSteps
  \/ WM_CompressStart
  \/ WM_CompressPersist
  \/ WM_CompressFails
  \/ WM_CompressFinish
  \/ WM_GetRecentSteps
  \/ WM_Clear

(***************************************************************************)
(* C2: WorkingMemory never exceeds max_size entries: after every add_step  *)
(* call returns, len(steps) <= max_size.                                   *)
(***************************************************************************)
C2_NeverExceedsMaxSize ==
  wm_last = "add_step" => Len(steps) <= max_size

\* the last k elements of s, in order
LastK(s, k) == [j \in 1..k |-> s[Len(s) - k + j]]

(***************************************************************************)
(* C3: for every buffer and every n >= 0, get_recent_steps(n) returns      *)
(* exactly min(n, len(steps)) steps: the most recently added ones, in the  *)
(* order they were added.                                                  *)
(***************************************************************************)
C3_RecentStepsExact ==
  wm_last = "get_recent_steps" =>
    /\ Len(wm_recent) = Min(wm_n, Len(steps))
    /\ wm_recent = LastK(steps, Min(wm_n, Len(steps)))

\* C33: overflow is handled by FIFO drop: a run of _compress_steps that ends
\* with more than max_size steps in the buffer removes exactly the oldest
\* step and leaves the newer ones in their order.
C33_FifoDrop ==
  [][((WM_CompressSteps \/ WM_CompressFinish) /\ Len(steps) > max_size)
       => steps' = Tail(steps)]_vars

\* C34: eviction never persists steps: the overflow handling passes no step
\* to memory_manager.add_memory, so no long-term record comes from it.
C34_EvictionNeverPersists ==
  wm_longterm = <<>>

\* the number of entries of s equal to x
Occurrences(s, x) == Cardinality({k \in 1..Len(s) : s[k] = x})

\* C40: compression loses no step: every step that a run of the compressing
\* _compress_steps removes from the buffer has been passed to
\* memory_manager.add_memory exactly once.
C40_CompressionLosesNoStep ==
  [][WM_CompressFinish
       => \A k \in 1..Len(steps) : Occurrences(wm_longterm', steps[k]) = 1]_vars

(***************************************************************************)
(* MemoryRankPlugin.weight                                                 *)
(***************************************************************************)

\* the values a caller may try to assign (tenths)
WeightArgs == (0 - MaxOver)..(Scale + MaxOver)

\* a range test without the lower bound
WeightRejected_NoLowerBound(value) == value > Scale

\* weight.setter: "if not 0 <= value <= 1: raise ValueError"
WeightRejected(value) == ~(0 <= value /\ value <= Scale)

\* weight.setter: the new _weight (the assignment is skipped when it raises)
WeightSetter(old, value) == IF WeightRejected(value) THEN old ELSE value

PWNoCall == [op |-> "none", arg |-> 0, raised |-> FALSE, before |-> 0]

PWInit ==
  /\ pw_exists = FALSE
  /\ pw_weight = 0
  /\ pw_last = PWNoCall

\* ToolSimilarityPlugin(weight=value): MemoryRankPlugin.__init__ sets
\* _weight = 1.0, then self.weight = value goes through the setter; when the
\* setter raises, the constructor raises and no object results
PW_Construct ==
  /\ ~pw_exists
  /\ \E value \in WeightArgs :
       /\ pw_exists' = ~WeightRejected(value)
       /\ pw_weight' = IF WeightRejected(value) THEN pw_weight
                       ELSE WeightSetter(Scale, value)
       /\ pw_last' = [op |-> "construct", arg |-> value,
                      raised |-> WeightRejected(value), before |-> Scale]
  /\ Others_PW

\* plugin.weight = value
PW_SetWeight ==
  /\ pw_exists
  /\ \E value \in WeightArgs :
       /\ pw_weight' = WeightSetter(pw_weight, value)
       /\ pw_last' = [op |-> "set", arg |-> value,
                      raised |-> WeightRejected(value), before |-> pw_weight]
  /\ UNCHANGED pw_exists
  /\ Others_PW

PWNext ==
  \/ PW_Construct
  \/ PW_SetWeight

(***************************************************************************)
(* C5: assigning a plugin weight outside [0,1] raises a validation error   *)
(* and leaves the previous weight unchanged; after any sequence of         *)
(* assignments (the constructor's included) the weight is in [0,1].        *)
(***************************************************************************)
C5_WeightValidated ==
  /\ pw_exists => (0 <= pw_weight /\ pw_weight <= Scale)
  /\ pw_last.op = "set" =>
       /\ pw_last.raised = (pw_last.arg < 0 \/ pw_last.arg > Scale)
       /\ pw_last.raised => pw_weight = pw_last.before
       /\ ~pw_last.raised => pw_weight = pw_last.arg
  /\ pw_last.op = "construct" =>
       /\ pw_last.raised = (pw_last.arg < 0 \/ pw_last.arg > Scale)
       /\ pw_last.raised = ~pw_exists

\* an out-of-range assignment was rejected and an earlier, non-default weight kept
C5_Witness ==
  /\ pw_exists /\ pw_last.op = "set" /\ pw_last.raised
  /\ pw_last.arg > Scale
  /\ pw_weight = pw_last.before /\ pw_weight = 3

(***************************************************************************)
(* ChromaMemoryManager.get_memories and MemoryRankPlugin.rerank            *)
(***************************************************************************)

\* Python s[:n] for n >= 0
TakeN(s, n) == SubSeq(s, 1, Min(n, Len(s)))

\* A stored record: whether it matches the metadata filter of the query,
\* whether deserialize_memory succeeds on its stored metadata, and its
\* distance to the query embedding (tenths).  A record that does not match
\* the filter is never returned by the backend, so its other fields are fixed.
Dists == {3, 7}
StoredRecords ==
  {r \in [match : BOOLEAN, ok : BOOLEAN, dist : Dists] :
     ~r.match => (r.ok /\ r.dist = 7)}

\* A registered plugin: its enabled flag, whether its calculate_scores raises,
\* and its weight (tenths).  The weight matters only when the plugin scores.
PluginKinds ==
  {q \in [enabled : BOOLEAN, throws : BOOLEAN, weight : {3, 5}] :
     (~q.enabled \/ q.throws) => (q.weight = 5 /\ (~q.enabled => ~q.throws))}

ScoreVals == {1, 5, 9}   \* the scores a plugin returns (tenths)
Missing == -1         \* memory_id not in scores

\* collection.query: the records matching the filter by ascending distance
\* (ties in storage order)
RECURSIVE ByDistance(_, _)
ByDistance(coll, S) ==
  IF S = {} THEN <<>>
  ELSE LET m == CHOOSE x \in S : \A y \in S :
                  \/ coll[x].dist < coll[y].dist
                  \/ coll[x].dist = coll[y].dist /\ x <= y
       IN <<m>> \o ByDistance(coll, S \ {m})

\* collection.get: the records matching the filter in storage order
RECURSIVE InStorageOrder(_)
InStorageOrder(S) ==
  IF S = {} THEN <<>>
  ELSE LET m == CHOOSE x \in S : \A y \in S : x <= y
       IN <<m>> \o InStorageOrder(S \ {m})

MatchingIds(coll) == {j \in 1..Len(coll) : coll[j].match}

\* what the backend returns for n requested results
BackendResults(coll, blank, n) ==
  TakeN(IF blank THEN InStorageOrder(MatchingIds(coll))
        ELSE ByDistance(coll, MatchingIds(coll)), n)

\* _get_memories_with_filter: similarity is the distance (1.0 on the get
\* path); a record that fails deserialize_memory is skipped, one below the
\* threshold is dropped
GetMemoriesWithFilter(coll, blank, n, threshold) ==
  LET ids == BackendResults(coll, blank, n)
      all == [j \in 1..Len(ids) |->
                [id |-> ids[j],
                 num |-> IF blank THEN Scale ELSE coll[ids[j]].dist]]
      Keep(c) == coll[c.id].ok /\ c.num >= threshold
  IN SelectSeq(all, Keep)

\* a descending sort that puts the last of several equal maxima first
RECURSIVE SortDesc_LastOfEqualsFirst(_)
SortDesc_LastOfEqualsFirst(s) ==
  IF s = <<>> THEN <<>>
  ELSE LET j == CHOOSE j \in 1..Len(s) :
                  /\ \A i \in 1..Len(s) : s[i].num <= s[j].num
                  /\ \A i \in (j + 1)..Len(s) : s[i].num < s[j].num
       IN <<s[j]>> \o SortDesc_LastOfEqualsFirst(SubSeq(s, 1, j - 1)
                                                 \o SubSeq(s, j + 1, Len(s)))

\* list.sort(key=similarity, reverse=True): stable, non-increasing
RECURSIVE SortDesc(_)
SortDesc(s) ==
  IF s = <<>> THEN <<>>
  ELSE LET j == CHOOSE j \in 1..Len(s) :
                  /\ \A i \in 1..Len(s) : s[i].num <= s[j].num
                  /\ \A i \in 1..(j - 1) : s[i].num < s[j].num
       IN <<s[j]>> \o SortDesc(SubSeq(s, 1, j - 1) \o SubSeq(s, j + 1, Len(s)))

\* the combination with the two weights exchanged
NewSimilarity_WeightsSwapped(num, den, weight, score) ==
  num * weight + score * (Scale - weight) * (den \div Scale)

\* rerank, line 109: similarity * (1 - weight) + score * weight, as a
\* numerator over den * Scale
NewSimilarity(num, den, weight, score) ==
  num * (Scale - weight) + score * weight * (den \div Scale)

\* MemoryRankPlugin.rerank on the list mems whose similarities are num/den
Rerank(mems, den, plugin, scores, count) ==
  IF ~plugin.enabled \/ mems = <<>>
  THEN [outcome |-> "skipped", result |-> TakeN(mems, count), sorted |-> mems,
        den |-> den]
  ELSE IF plugin.throws
  THEN [outcome |-> "threw", result |-> mems, sorted |-> mems, den |-> den]
  ELSE LET upd == [j \in 1..Len(mems) |->
                     [id |-> mems[j].id,
                      num |-> IF scores[mems[j].id] # Missing
                              THEN NewSimilarity(mems[j].num, den, plugin.weight,
                                                 scores[mems[j].id])
                              ELSE mems[j].num * Scale]]
           srt == SortDesc(upd)
       IN [outcome |-> "ok", result |-> TakeN(srt, count), sorted |-> srt,
           den |-> den * Scale]

\* a failure handler that would truncate the candidates
AfterPluginFailure_Truncates(mems, count) == TakeN(mems, count)

\* get_memories, "except Exception: print(...); continue": memories is kept
AfterPluginFailure(mems, count) == mems

NoScores == [j \in {} |-> Missing]

RKRest ==
  /\ rk_pc = "idle"
  /\ rk_count = 0 /\ rk_threshold = 0 /\ rk_blank = FALSE
  /\ rk_base = <<>> /\ rk_cands = <<>> /\ rk_den = Scale
  /\ rk_i = 0
  /\ rk_prev = <<>> /\ rk_prevden = Scale /\ rk_sorted = <<>>
  /\ rk_scores = NoScores /\ rk_outcome = "none"
  /\ rk_result = <<>>

RKInit ==
  /\ collection \in UNION {[1..n -> StoredRecords] : n \in 0..MaxRecords}
  /\ plugins \in UNION {[1..n -> PluginKinds] : n \in 0..MaxPlugins}
  /\ RKRest

RKIdle == collection = <<>> /\ plugins = <<>> /\ RKRest

\* get_memories up to the plugin loop: the base phase asks for 2 * count
RK_Query ==
  /\ rk_pc = "idle"
  /\ \E k \in 1..MaxCount, thr \in {0, 5}, blank \in BOOLEAN :
       LET base == GetMemoriesWithFilter(collection, blank, 2 * k, thr)
       IN /\ rk_count' = k /\ rk_threshold' = thr /\ rk_blank' = blank
          /\ rk_base' = base
          /\ rk_cands' = base
          /\ IF plugins = <<>>
             THEN rk_pc' = "done" /\ rk_result' = TakeN(base, k)
             ELSE rk_pc' = "plugins" /\ rk_result' = rk_result
  /\ rk_i' = 1
  /\ UNCHANGED <<collection, plugins, rk_den, rk_prev, rk_prevden, rk_sorted,
                 rk_scores, rk_outcome>>
  /\ Others_RK

\* one turn of "for plugin in self.plugins"
RK_Plugin ==
  /\ rk_pc = "plugins" /\ rk_i <= Len(plugins)
  /\ LET plugin == plugins[rk_i]
         ids == {rk_cands[j].id : j \in 1..Len(rk_cands)}
         scoring == plugin.enabled /\ ~plugin.throws /\ rk_cands # <<>>
     IN \E scores \in IF scoring THEN [ids -> ScoreVals \cup {Missing}]
                      ELSE {NoScores} :
          LET r == Rerank(rk_cands, rk_den, plugin, scores, rk_count)
          IN /\ rk_scores' = scores
             /\ rk_outcome' = r.outcome
             /\ rk_sorted' = r.sorted
             /\ rk_cands' = IF r.outcome = "threw"
                            THEN AfterPluginFailure(rk_cands, rk_count)
                            ELSE r.result
             /\ rk_den' = r.den
  /\ rk_prev' = rk_cands
  /\ rk_prevden' = rk_den
  /\ rk_i' = rk_i + 1
  /\ UNCHANGED <<collection, plugins, rk_pc, rk_count, rk_threshold, rk_blank,
                 rk_base, rk_result>>
  /\ Others_RK

\* return memories[:count]
RK_Return ==
  /\ rk_pc = "plugins" /\ rk_i > Len(plugins)
  /\ rk_result' = TakeN(rk_cands, rk_count)
  /\ rk_pc' = "done"
  /\ UNCHANGED <<collection, plugins, rk_count, rk_threshold, rk_blank, rk_base,
                 rk_cands, rk_den, rk_i, rk_prev, rk_prevden, rk_sorted, rk_scores,
                 rk_outcome>>
  /\ Others_RK

RKNext ==
  \/ RK_Query
  \/ RK_Plugin
  \/ RK_Return

IdsOf(lst) == {lst[j].id : j \in 1..Len(lst)}

\* C31: truncation to count happens only after all plugins have run: every
\* plugin of the pipeline, the first and each later one, receives all the
\* candidates the base phase returned for 2 * count.
C31_TruncatedOnlyAtEnd ==
  (rk_pc \in {"plugins", "done"} /\ rk_i > 1) => IdsOf(rk_prev) = IdsOf(rk_base)

\* C4: get_memories(content, count=k) with the default threshold returns at
\* most k records and at least min(k, M) records, M being the number of
\* stored records that match the metadata filter.
C4_CountBounds ==
  (rk_pc = "done" /\ rk_threshold = 0) =>
    /\ Len(rk_result) <= rk_count
    /\ Len(rk_result) >= Min(rk_count, Cardinality(MatchingIds(collection)))

PosOf(s, id) == CHOOSE j \in 1..Len(s) : s[j].id = id

\* C7: after rerank by an enabled plugin of weight w, every candidate that had
\* similarity s and was scored p has similarity s*(1-w) + p*w, and the list is
\* sorted by the updated similarity in non-increasing order and returned in
\* that order; two candidates tied at 0.70 and scored 0.9 and 0.1 with weight
\* 0.5 come out as 0.80 then 0.40, the 0.9-scored candidate first.
C7_WeightedUpdateAndSort ==
  rk_outcome = "ok" =>
    LET w == plugins[rk_i - 1].weight IN
    /\ Len(rk_sorted) = Len(rk_prev)
    /\ \A j \in 1..Len(rk_prev) :
         LET id == rk_prev[j].id
             p == rk_scores[id]
             new == rk_sorted[PosOf(rk_sorted, id)].num
         IN /\ \E i \in 1..Len(rk_sorted) : rk_sorted[i].id = id
            /\ p # Missing =>
                 \* new/rk_den = (s/rk_prevden)*(1 - w/Scale) + (p/Scale)*(w/Scale)
                 new * rk_prevden * Scale * Scale
                   = rk_den * ( rk_prev[j].num * (Scale - w) * Scale
                                + p * w * rk_prevden )
    /\ \A i \in 1..(Len(rk_sorted) - 1) : rk_sorted[i].num >= rk_sorted[i + 1].num
    /\ rk_cands = TakeN(rk_sorted, rk_count)
    /\ ( /\ Len(rk_prev) = 2 /\ rk_prevden = 10
         /\ rk_prev[1].num = 7 /\ rk_prev[2].num = 7
         /\ w = 5
         /\ rk_scores[rk_prev[1].id] = 1 /\ rk_scores[rk_prev[2].id] = 9 )
       => /\ rk_den = 100
          /\ rk_sorted = << [id |-> rk_prev[2].id, num |-> 80],
                            [id |-> rk_prev[1].id, num |-> 40] >>

C7_Witness ==
  /\ rk_outcome = "ok" /\ rk_count = 2
  /\ Len(rk_prev) = 2 /\ rk_prevden = 10
  /\ rk_prev[1].num = 7 /\ rk_prev[2].num = 7
  /\ plugins[rk_i - 1].weight = 5
  /\ rk_scores[rk_prev[1].id] = 1 /\ rk_scores[rk_prev[2].id] = 9
  /\ rk_cands = << [id |-> rk_prev[2].id, num |-> 80],
                   [id |-> rk_prev[1].id, num |-> 40] >>

\* whether every two candidates of lst with equal similarity stand in the
\* relative order they have in ref
TiesInOrderOf(lst, ref) ==
  \A i, j \in 1..Len(lst) :
    (i < j /\ lst[i].num = lst[j].num)
      => PosOf(ref, lst[i].id) < PosOf(ref, lst[j].id)

\* C16 (as stated): candidates with equal similarity after a plugin's update,
\* and in the list get_memories returns, stand in the relative order in which
\* the base phase produced them.
C16_TiesKeepBaseOrder ==
  /\ rk_outcome = "ok" => TiesInOrderOf(rk_sorted, rk_base)
  /\ rk_pc = "done" => TiesInOrderOf(rk_result, rk_base)

\* C16 (amended): candidates with equal similarity after a plugin's update
\* stand in the relative order in which they were passed to that plugin, which
\* is the base-phase order as long as no earlier plugin has sorted the list.
C16_TiesKeepInputOrder ==
  /\ rk_outcome = "ok" => TiesInOrderOf(rk_sorted, rk_prev)
  /\ (rk_outcome = "ok" /\ rk_i = 2) => TiesInOrderOf(rk_sorted, rk_base)

C16_Witness ==
  /\ rk_outcome = "ok" /\ rk_i = 3
  /\ plugins[1].enabled /\ ~plugins[1].throws
  /\ \E i, j \in 1..Len(rk_sorted) :
       /\ i < j /\ rk_sorted[i].num = rk_sorted[j].num
       /\ rk_scores[rk_sorted[i].id] # rk_scores[rk_sorted[j].id]
       /\ PosOf(rk_base, rk_sorted[i].id) > PosOf(rk_base, rk_sorted[j].id)

(***************************************************************************)
(* ImportanceCalculator (unifai/agent/memory/importance.py) and            *)
(* _filter_and_rank_memories (unifai/agent/messaging.py)                   *)
(*                                                                         *)
(* Times are whole hours; a memory's age is the time between its           *)
(* created_at and the created_at of the current memory.  Embeddings are    *)
(* two-component vectors in tenths, dot products in hundredths.  Scores    *)
(* are exact fractions [num, den] with den > 0.                            *)
(***************************************************************************)

HoursPerDay == 24       \* 24 * 3600 seconds
time_weight == 3        \* 0.3
relevance_weight == 7   \* 0.7
Hundred == 100          \* 1.0 in hundredths
top_k_limit == 3        \* min(3, ...)

Abs(x) == IF x < 0 THEN 0 - x ELSE x

NoEmbedding == <<>>
Embeddings == {<<10, 0>>, <<6, 8>>, <<-10, 0>>}
ZeroVector == <<0, 0>>          \* what get_embedding returns after a failure
Ages == {0, 1, 2, HoursPerDay}
StoredMemories ==
  [age : Ages, embedding : Embeddings \cup {NoEmbedding}, near : BOOLEAN]

\* np.dot
Dot(a, b) == a[1] * b[1] + a[2] * b[2]

\* _calculate_time_decay for one reference time: time_diff is the
\* reference's created_at minus the current memory's, that is -age
TimeDiff(age) == 0 - age
TimeDecayRaises(age) == HoursPerDay + TimeDiff(age) = 0
TimeDecay(age) ==
  [num |-> HoursPerDay, den |-> Abs(HoursPerDay + TimeDiff(age))]

\* _calculate_relevance: the dot products of the memories that have an
\* embedding, in order (hundredths); 0.05 for each if none has one
RECURSIVE Similarities(_, _)
Similarities(query, mems) ==
  IF mems = <<>> THEN <<>>
  ELSE LET rest == Similarities(query, Tail(mems))
       IN IF Head(mems).embedding # NoEmbedding
          THEN <<Dot(query, Head(mems).embedding)>> \o rest
          ELSE rest

CalculateRelevance(query, mems) ==
  IF mems = <<>> \/ query = NoEmbedding THEN <<10>>
  ELSE LET sims == Similarities(query, mems)
       IN IF sims # <<>> THEN sims ELSE [j \in 1..Len(mems) |-> 5]

\* time_weight * t + relevance_weight * r for t a fraction and r in hundredths
Combine(t, r) ==
  [num |-> time_weight * t.num * Hundred + relevance_weight * r * t.den,
   den |-> Scale * Hundred * t.den]

\* a clamp that forgets the upper bound
Clamp01_NoUpperBound(q) == IF q.num < 0 THEN [num |-> 0, den |-> q.den] ELSE q

\* min(max(x, 0.0), 1.0)
Clamp01(q) ==
  IF q.num < 0 THEN [num |-> 0, den |-> q.den]
  ELSE IF q.num > q.den THEN [num |-> q.den, den |-> q.den]
  ELSE q

\* a >= b and a > b for fractions with positive denominators
FracGeq(a, b) == a.num * b.den >= b.num * a.den
FracGt(a, b) == a.num * b.den > b.num * a.den

\* sorted(idx, key=lambda i: imp[i], reverse=True): stable, non-increasing
RECURSIVE SortedByImportance(_, _)
SortedByImportance(idx, imp) ==
  IF idx = <<>> THEN <<>>
  ELSE LET j == CHOOSE j \in 1..Len(idx) :
                  /\ \A i \in 1..Len(idx) : FracGeq(imp[idx[j]], imp[idx[i]])
                  /\ \A i \in 1..(j - 1) : FracGt(imp[idx[j]], imp[idx[i]])
       IN <<idx[j]>> \o
          SortedByImportance(SubSeq(idx, 1, j - 1) \o SubSeq(idx, j + 1, Len(idx)), imp)

\* the indices of the memories with a location within vision range, in order
FilteredIndices(mems) ==
  LET Near(j) == mems[j].near
  IN SelectSeq([j \in 1..Len(mems) |-> j], Near)

\* _filter_and_rank_memories after the guard of its first line
FilterAndRank(query, mems) ==
  LET n == Len(mems)
      relevance_factor == CalculateRelevance(query, mems)
      m == Min(n, Len(relevance_factor))                \* zip
      raw == [j \in 1..m |-> Combine(TimeDecay(mems[j].age), relevance_factor[j])]
      importance == [j \in 1..m |-> Clamp01(raw[j])]
      filtered == FilteredIndices(mems)
      decays == [j \in 1..n |-> TimeDecay(mems[j].age)]
      Failed == [outcome |-> "raised", raw |-> <<>>, importance |-> <<>>, top |-> <<>>,
                 time |-> <<>>]
  IN IF \E j \in 1..n : TimeDecayRaises(mems[j].age) THEN Failed
     ELSE IF filtered # <<>>
     THEN IF \E j \in 1..Len(filtered) : filtered[j] > m THEN Failed
          ELSE [outcome |-> "ok", raw |-> raw, importance |-> importance, time |-> decays,
                top |-> TakeN(SortedByImportance(filtered, importance),
                              Min(top_k_limit, Len(filtered)))]
     ELSE [outcome |-> "ok", raw |-> raw, importance |-> importance, time |-> decays,
           top |-> TakeN(SortedByImportance([j \in 1..m |-> j], importance),
                         Min(top_k_limit, n))]

\* Python floats as far as calculate_memory_importance tells them apart:
\* finite values in hundredths, nan, inf and -inf
Num(v) == [kind |-> "num", v |-> v]
NaN == [kind |-> "nan", v |-> 0]
PosInf == [kind |-> "inf", v |-> 0]
NegInf == [kind |-> "-inf", v |-> 0]

\* a < b on floats: false whenever one side is nan
FloatLt(a, b) ==
  /\ a.kind # "nan" /\ b.kind # "nan"
  /\ \/ a.kind = "-inf" /\ b.kind # "-inf"
     \/ b.kind = "inf" /\ a.kind # "inf"
     \/ a.kind = "num" /\ b.kind = "num" /\ a.v < b.v

\* the built-ins min(a, b) and max(a, b)
PyMin(a, b) == IF FloatLt(b, a) THEN b ELSE a
PyMax(a, b) == IF FloatLt(a, b) THEN b ELSE a

\* what the provider call can yield: an exception, a response without
\* importance_score, a value float() rejects, or a value float() accepts
Responses ==
  {[kind |-> "raises"], [kind |-> "missing"], [kind |-> "invalid"]}
  \cup {[kind |-> "value", value |-> f] :
          f \in {Num(v) : v \in {-50, 0, 50, 100, 150}} \cup {NaN, PosInf, NegInf}}

\* calculate_memory_importance
CalculateMemoryImportance(response) ==
  IF response.kind # "value" THEN Num(5)
  ELSE PyMax(Num(0), PyMin(Num(Hundred), response.value))

NoResponse == [kind |-> "none"]

IMPRest ==
  /\ imp_pc = "idle" /\ imp_outcome = "none"
  /\ imp_raw = <<>> /\ memory_importance = <<>> /\ top_memories = <<>>
  /\ time_factor = <<>>
  /\ prov_response = NoResponse /\ prov_score = Num(0)

IMPInit ==
  /\ all_memories \in UNION {[1..n -> StoredMemories] : n \in 0..MaxMems}
  /\ imp_query \in {<<10, 0>>, ZeroVector}
  /\ IMPRest

IMPIdle == all_memories = <<>> /\ imp_query = ZeroVector /\ IMPRest

\* _filter_and_rank_memories(working_memory_content, all_memories)
IMP_FilterAndRank ==
  /\ imp_pc = "idle"
  /\ imp_pc' = "ranked"
  /\ IF all_memories = <<>>
     THEN /\ imp_outcome' = "empty"
          /\ UNCHANGED <<imp_raw, memory_importance, top_memories, time_factor>>
     ELSE LET r == FilterAndRank(imp_query, all_memories)
          IN /\ imp_outcome' = r.outcome
             /\ imp_raw' = r.raw
             /\ time_factor' = r.time
             /\ memory_importance' = r.importance
             /\ top_memories' = r.top
  /\ UNCHANGED <<all_memories, imp_query, prov_response, prov_score>>
  /\ Others_IMP

\* calculate_memory_importance(memory)
IMP_ProviderScore ==
  /\ imp_pc = "idle"
  /\ imp_pc' = "scored"
  /\ \E response \in Responses :
       /\ prov_response' = response
       /\ prov_score' = CalculateMemoryImportance(response)
  /\ UNCHANGED <<all_memories, imp_query, imp_outcome, imp_raw, memory_importance,
                 top_memories, time_factor>>
  /\ Others_IMP

IMPNext ==
  \/ IMP_FilterAndRank
  \/ IMP_ProviderScore

\* the memories all carry the same embedding
IdenticalEmbeddings ==
  /\ all_memories # <<>>
  /\ all_memories[1].embedding # NoEmbedding
  /\ \A j \in 1..Len(all_memories) :
       all_memories[j].embedding = all_memories[1].embedding

\* C8: among memories of equal relevance a more recently created one never
\* gets a lower combined importance than an older one; in particular, of three
\* memories created 2 hours, 1 hour and 0 hours before the reference time with
\* identical embeddings, the one created at the reference time ranks first.
C8_RecentRanksFirst ==
  (imp_pc = "ranked" /\ imp_outcome = "ok" /\ IdenticalEmbeddings) =>
    /\ \A i, j \in 1..Len(all_memories) :
         all_memories[i].age < all_memories[j].age
           => FracGeq(memory_importance[i], memory_importance[j])
    /\ ( /\ Len(all_memories) = 3
         /\ {all_memories[j].age : j \in 1..3} = {0, 1, 2}
         /\ \A j \in 1..3 : all_memories[j].near = all_memories[1].near )
       => all_memories[top_memories[1]].age = 0

TimeDecayDefined == \A j \in 1..Len(all_memories) : ~TimeDecayRaises(all_memories[j].age)

\* C39: scores stay aligned with records: the time-factor list and the
\* relevance list of calculate_relevance each have one entry per related
\* record, entry i belonging to record i, so _filter_and_rank_memories raises
\* no IndexError and the importance at index i is that of all_memories[i].
C39_ScoresAligned ==
  (imp_pc = "ranked" /\ imp_outcome # "empty" /\ TimeDecayDefined) =>
    LET relevance_factor == CalculateRelevance(imp_query, all_memories)
        n == Len(all_memories)
    IN /\ imp_outcome = "ok"
       /\ Len(time_factor) = n
       /\ Len(relevance_factor) = n
       /\ Len(memory_importance) = n
       /\ \A j \in 1..n :
            /\ time_factor[j] = TimeDecay(all_memories[j].age)
            /\ all_memories[j].embedding # NoEmbedding =>
                 /\ relevance_factor[j] = Dot(imp_query, all_memories[j].embedding)
                 /\ memory_importance[j] =
                      Clamp01(Combine(TimeDecay(all_memories[j].age),
                                      Dot(imp_query, all_memories[j].embedding)))

\* the provider did not deliver a usable score: an exception or timeout, a
\* response without importance_score, a value float() rejects, or a value
\* outside [0, 1] (nan and the infinities included)
ProviderFailed(response) ==
  \/ response.kind # "value"
  \/ response.value.kind # "num"
  \/ response.value.v < 0
  \/ response.value.v > Hundred

\* C21: on any failure of the scoring provider (exception or timeout, missing
\* field, non-numeric value, out-of-range value) calculate_memory_importance
\* returns the default 0.05.
C21_FailureGivesDefault ==
  (imp_pc = "scored" /\ ProviderFailed(prov_response)) => prov_score = Num(5)

\* C15: for the timestamps the scoring code passes to _calculate_time_decay
\* (stored memories created age hours before the scoring), the call raises
\* nothing and each result equals 1/(1 + age/24h), lies in (0,1] and is
\* smaller for an older memory.
C15_TimeDecay ==
  (imp_pc = "ranked" /\ imp_outcome # "empty") =>
    /\ imp_outcome # "raised"
    /\ Len(time_factor) = Len(all_memories)
    /\ \A j \in 1..Len(time_factor) :
         /\ time_factor[j].den > 0
         /\ time_factor[j].num * (HoursPerDay + all_memories[j].age)
              = time_factor[j].den * HoursPerDay
         /\ time_factor[j].num > 0 /\ time_factor[j].num <= time_factor[j].den
    /\ \A j, k \in 1..Len(time_factor) :
         all_memories[j].age < all_memories[k].age
           => FracGt(time_factor[j], time_factor[k])

(***************************************************************************)
(* One record's way to disk and back: Memory.__init__, to_dict, from_dict  *)
(* (unifai/agent/memory/base.py) and LocalStorage._serialize_memory,       *)
(* _deserialize_memory, _batch_write, save_memory_immediately, load_memory *)
(* (unifai/agent/memory/storage.py).                                       *)
(*                                                                         *)
(* Python values are records [t, v] of a type tag and a payload, the       *)
(* payload always a sequence of integers.  A datetime is its wall-clock    *)
(* time t, its microsecond us, the kind tz of its tzinfo and its UTC       *)
(* offset off.  A JSON document is modelled by its value tree.             *)
(***************************************************************************)

Absent == -1    \* a part that an ISO-8601 string does not have

NoId == "<None>"
NoDatetime == [t |-> 0, us |-> 0, tz |-> "none", off |-> 0]
NoEmb == [t |-> "none", dtype |-> "", v |-> <<>>]
NoAgents == [t |-> "none", v |-> <<>>]
NoMetadata == [t |-> "none", entries |-> <<>>]

Datetimes ==
  {[t |-> 1, us |-> us, tz |-> z.tz, off |-> z.off] :
     us \in {0, 5},
     z \in {[tz |-> "naive", off |-> 0], [tz |-> "utc", off |-> 0],
            [tz |-> "zone", off |-> 60]}}

\* metadata entries: a key (a str, or an int, which JSON cannot keep) and a
\* value (JSON-valued, or a tuple, which JSON cannot keep)
MetadataEntries ==
  {[kt |-> "str", k |-> 1, vt |-> "int", v |-> <<1>>],
   [kt |-> "str", k |-> 1, vt |-> "float", v |-> <<15>>],
   [kt |-> "str", k |-> 1, vt |-> "list", v |-> <<1, 2>>],
   [kt |-> "str", k |-> 1, vt |-> "tuple", v |-> <<1, 2>>],
   [kt |-> "int", k |-> 1, vt |-> "int", v |-> <<1>>]}

\* the arguments of Memory(...)
MemoryArgs ==
  [id : {NoId, "", "m1"},
   content : {"", "c"},
   type : {"observation"},
   associated_agents : {NoAgents, [t |-> "list", v |-> <<>>], [t |-> "list", v |-> <<1>>]},
   metadata : {NoMetadata, [t |-> "dict", entries |-> <<>>]}
              \cup {[t |-> "dict", entries |-> <<e>>] : e \in MetadataEntries},
   embedding : {NoEmb,
                [t |-> "ndarray", dtype |-> "float64", v |-> <<>>],
                [t |-> "ndarray", dtype |-> "float64", v |-> <<1, 2>>],
                [t |-> "ndarray", dtype |-> "float32", v |-> <<1, 2>>],
                [t |-> "list", dtype |-> "", v |-> <<1, 2>>]},
   importance_score : {[t |-> "float", v |-> <<0>>], [t |-> "float", v |-> <<5>>]},
   created_at : {NoDatetime} \cup Datetimes,
   last_accessed : {NoDatetime, [t |-> 1, us |-> 5, tz |-> "zone", off |-> 60]}]

\* uuid.uuid4() and datetime.now() at the n-th construction of an object
Uuid4(n) == IF n = 1 THEN "uuid-1" ELSE "uuid-2"
Now(n) == [t |-> 1 + n, us |-> 7, tz |-> "naive", off |-> 0]

\* Memory.__init__
MemoryNew(a, n) ==
  [id |-> IF a.id = NoId \/ a.id = "" THEN Uuid4(n) ELSE a.id,
   content |-> a.content,
   type |-> a.type,
   associated_agents |-> IF a.associated_agents.t = "none" \/ a.associated_agents.v = <<>>
                         THEN [t |-> "list", v |-> <<>>] ELSE a.associated_agents,
   metadata |-> IF a.metadata.t = "none" \/ a.metadata.entries = <<>>
                THEN [t |-> "dict", entries |-> <<>>] ELSE a.metadata,
   embedding |-> a.embedding,
   importance_score |-> a.importance_score,
   created_at |-> IF a.created_at = NoDatetime THEN Now(n) ELSE a.created_at,
   last_accessed |-> IF a.last_accessed = NoDatetime THEN Now(n) ELSE a.last_accessed]

\* ndarray.tolist()
ToList(e) == [t |-> "list", dtype |-> "", v |-> e.v]

\* np.array(list): the values as float64
NpArray(e) == [t |-> "ndarray", dtype |-> "float64", v |-> e.v]

\* datetime.isoformat(): the fraction is written only for a non-zero
\* microsecond, the offset only for an aware datetime
IsoFormat(d) ==
  [t |-> d.t,
   frac |-> IF d.us = 0 THEN Absent ELSE d.us,
   off |-> IF d.tz = "naive" THEN Absent ELSE d.off]

\* a parser that ignores the fraction
FromIsoformat_DropsFraction(str) ==
  [t |-> str.t, us |-> 0,
   tz |-> IF str.off = Absent THEN "naive" ELSE IF str.off = 0 THEN "utc" ELSE "fixed",
   off |-> IF str.off = Absent THEN 0 ELSE str.off]

\* datetime.fromisoformat(): an offset gives a fixed-offset tzinfo
FromIsoformat(str) ==
  [t |-> str.t,
   us |-> IF str.frac = Absent THEN 0 ELSE str.frac,
   tz |-> IF str.off = Absent THEN "naive" ELSE IF str.off = 0 THEN "utc" ELSE "fixed",
   off |-> IF str.off = Absent THEN 0 ELSE str.off]

\* Memory.to_dict raises: the cached coroutine was awaited before, or the
\* embedding is a list, which has no tolist
ToDictFails(r, was_awaited) == was_awaited \/ r.embedding.t = "list"

\* Memory.to_dict
ToDict(r) ==
  [r EXCEPT !.embedding = IF r.embedding.t # "none" THEN ToList(r.embedding)
                          ELSE NoEmb]

\* LocalStorage._serialize_memory
SerializeMemory(d) ==
  [d EXCEPT !.created_at = IsoFormat(d.created_at),
            !.last_accessed = IsoFormat(d.last_accessed),
            !.embedding = IF d.embedding.t = "ndarray" THEN ToList(d.embedding)
                          ELSE d.embedding]

\* json.dumps: lists and tuples become arrays, keys become strings, None null
JsonDumps(d) ==
  [d EXCEPT !.associated_agents = [t |-> "array", v |-> d.associated_agents.v],
            !.metadata = [t |-> "object",
                          entries |-> [j \in 1..Len(d.metadata.entries) |->
                             LET e == d.metadata.entries[j]
                             IN [e EXCEPT !.kt = "str",
                                          !.vt = IF e.vt \in {"list", "tuple"}
                                                 THEN "array" ELSE e.vt]]],
            !.embedding = IF d.embedding.t = "none"
                          THEN [t |-> "null", dtype |-> "", v |-> <<>>]
                          ELSE [t |-> "array", dtype |-> "", v |-> d.embedding.v]]

\* json.loads: arrays become lists, objects dicts, null None
JsonLoads(doc) ==
  [doc EXCEPT !.associated_agents = [t |-> "list", v |-> doc.associated_agents.v],
              !.metadata = [t |-> "dict",
                            entries |-> [j \in 1..Len(doc.metadata.entries) |->
                               LET e == doc.metadata.entries[j]
                               IN [e EXCEPT !.vt = IF e.vt = "array" THEN "list"
                                                   ELSE e.vt]]],
              !.embedding = IF doc.embedding.t = "null" THEN NoEmb
                            ELSE ToList(doc.embedding)]

\* LocalStorage._deserialize_memory
DeserializeMemory(d) ==
  [d EXCEPT !.created_at = FromIsoformat(d.created_at),
            !.last_accessed = FromIsoformat(d.last_accessed),
            !.embedding = IF d.embedding.t # "none" THEN NpArray(d.embedding)
                          ELSE d.embedding]

\* Memory.from_dict, the n-th construction
FromDict(d, n) ==
  MemoryNew([d EXCEPT !.embedding = IF d.embedding.t # "none"
                                    THEN NpArray(d.embedding) ELSE d.embedding], n)

\* == on datetimes: a naive one equals only a naive one with the same fields,
\* aware ones are compared as instants
DatetimeEq(a, b) ==
  IF a.tz = "naive" \/ b.tz = "naive"
  THEN a.tz = b.tz /\ a.t = b.t /\ a.us = b.us
  ELSE a.t - a.off = b.t - b.off /\ a.us = b.us

\* field-wise equality of two Memory objects; arrays by np.array_equal
SameRecord(a, b) ==
  /\ a.id = b.id /\ a.content = b.content /\ a.type = b.type
  /\ a.associated_agents = b.associated_agents
  /\ a.metadata = b.metadata
  /\ a.embedding.t = b.embedding.t /\ a.embedding.v = b.embedding.v
  /\ a.importance_score = b.importance_score
  /\ DatetimeEq(a.created_at, b.created_at)
  /\ DatetimeEq(a.last_accessed, b.last_accessed)

\* a valid record: the embedding is an ndarray or None, the metadata JSON-valued
ValidRecord(r) ==
  /\ r.embedding.t \in {"none", "ndarray"}
  /\ \A j \in 1..Len(r.metadata.entries) :
       r.metadata.entries[j].kt = "str" /\ r.metadata.entries[j].vt # "tuple"

DiskInit ==
  /\ d_pc = "none" /\ d_rec = <<>> /\ d_awaited = FALSE
  /\ d_exists = FALSE /\ d_file = <<>> /\ d_loaded = <<>>

\* r = Memory(...)
D_Construct ==
  /\ d_pc = "none"
  /\ \E a \in MemoryArgs : d_rec' = MemoryNew(a, 1)
  /\ d_pc' = "constructed"
  /\ UNCHANGED <<d_awaited, d_exists, d_file, d_loaded>>
  /\ Others_Disk

\* _batch_write([r]) or save_memory_immediately(r)
D_Write ==
  /\ d_pc \in {"constructed", "written"}
  /\ d_awaited' = TRUE
  /\ IF ToDictFails(d_rec, d_awaited)
     THEN d_pc' = "write_failed" /\ UNCHANGED <<d_exists, d_file>>
     ELSE /\ d_file' = JsonDumps(SerializeMemory(ToDict(d_rec)))
          /\ d_exists' = TRUE
          /\ d_pc' = "written"
  /\ UNCHANGED <<d_rec, d_loaded>>
  /\ Others_Disk

\* load_memory(r.id) with an empty _memory_cache
D_Load ==
  /\ d_pc \in {"written", "write_failed"} /\ d_exists
  /\ d_loaded' = FromDict(DeserializeMemory(JsonLoads(d_file)), 2)
  /\ d_pc' = "loaded"
  /\ UNCHANGED <<d_rec, d_awaited, d_exists, d_file>>
  /\ Others_Disk

DiskNext ==
  \/ D_Construct
  \/ D_Write
  \/ D_Load

\* C10: a valid record written by LocalStorage and read back from its file on
\* a cold cache equals the record written in every field: id, content, type,
\* associated agents, metadata, embedding, importance score, created_at and
\* last_accessed.
C10_DiskRoundTrip ==
  (d_pc = "loaded" /\ ValidRecord(d_rec)) => SameRecord(d_loaded, d_rec)

C10_Witness ==
  /\ d_pc = "loaded" /\ ValidRecord(d_rec)
  /\ d_rec.embedding.t = "ndarray" /\ d_rec.embedding.dtype = "float32"
  /\ d_rec.metadata.entries # <<>> /\ d_rec.metadata.entries[1].vt = "list"
  /\ d_rec.created_at.us # 0 /\ d_rec.created_at.tz = "zone"
  /\ d_rec.associated_agents.v # <<>>
  /\ d_loaded.created_at.tz = "fixed"

\* a <= b on datetimes of the same kind: naive ones by their fields, aware
\* ones as instants; a naive and an aware datetime cannot be ordered and such
\* pairs are left out
DatetimeLeq(a, b) ==
  IF (a.tz = "naive") # (b.tz = "naive") THEN TRUE
  ELSE IF a.tz = "naive"
  THEN a.t < b.t \/ (a.t = b.t /\ a.us <= b.us)
  ELSE a.t - a.off < b.t - b.off \/ (a.t - a.off = b.t - b.off /\ a.us <= b.us)

\* C19: every record has created_at <= last_accessed: when constructed with
\* any combination of supplied and defaulted created_at and last_accessed,
\* and when rebuilt by from_dict from its file.
C19_CreatedBeforeAccessed ==
  /\ d_pc # "none" => DatetimeLeq(d_rec.created_at, d_rec.last_accessed)
  /\ d_pc = "loaded" => DatetimeLeq(d_loaded.created_at, d_loaded.last_accessed)

(***************************************************************************)
(* serialize_memory / deserialize_memory (unifai/memory/utils.py) on the   *)
(* pydantic Memory model (unifai/memory/base.py).                          *)
(*                                                                         *)
(* A Python value is a record [vt, v]: its type and the text str() gives   *)
(* for it.  A dict is a function from its keys.                            *)
(***************************************************************************)

PyStr(text) == [vt |-> "str", v |-> text]
PyNone == [vt |-> "none", v |-> "None"]

\* str(value)
Str(x) == [vt |-> "str", v |-> x.v]

\* json.dumps(value) and json.loads(text) for the lists and dicts used here
JsonDump(x) == [vt |-> "str", v |-> x.v]
IsJsonList(x) == x.v \in {"[]", "[tool]"}
IsJsonDict(x) == x.v \in {"{}", "{text}"}
JsonDecodeError(x) == ~(IsJsonList(x) \/ IsJsonDict(x))
JsonLoad(x) == [vt |-> IF IsJsonList(x) THEN "list" ELSE "dict", v |-> x.v]

\* the values of MemoryRole, and what datetime.fromisoformat accepts
MemoryRoles == {"user", "system"}
MemoryTypes == {"interaction", "fact"}
IsoStrings == {"2024-01-01T00:00:00", "2024-01-01T00:00:00.000005+01:00"}

\* the keys deserialize_memory keeps out of Memory.metadata
ReservedKeys ==
  {"user_id", "agent_id", "memory_type", "role", "content_text", "created_at",
   "unique", "tools", "chat_id", "type", "content"}

MetadataKeys == {"note", "role", "type", "content"}
MetadataValues ==
  {PyStr("a"), PyStr("system"), [vt |-> "int", v |-> "1"],
   [vt |-> "float", v |-> "1.5"], [vt |-> "bool", v |-> "True"]}

EmptyDict == [k \in {} |-> PyNone]

\* valid records of the model: every field within its declared type
VecRecords ==
  [id : {"uuid-a"}, user_id : {"uuid-u"}, agent_id : {"uuid-g"},
   content : {[vt |-> "dict", v |-> "{text}"], [vt |-> "dict", v |-> "{}"]},
   memory_type : MemoryTypes,
   metadata : {EmptyDict}
              \cup {[k \in {key} |-> val] : key \in MetadataKeys, val \in MetadataValues},
   role : MemoryRoles,
   tools : {PyNone, [vt |-> "list", v |-> "[]"], [vt |-> "list", v |-> "[tool]"]},
   embedding : {PyNone, [vt |-> "list", v |-> "[0.1]"]},
   created_at : IsoStrings,
   unique : BOOLEAN]

\* the function f overridden by g where g is defined ({**f, **g})
Override(f, g) ==
  [k \in DOMAIN f \cup DOMAIN g |-> IF k \in DOMAIN g THEN g[k] ELSE f[k]]

\* serialize_memory raises: memory.content["text"] on a content without it
SerializeRaises(memory) == memory.content.v # "{text}"

\* serialize_memory
serialize_memory(memory) ==
  LET base == [k \in {"user_id", "agent_id", "memory_type", "role", "content_text",
                      "created_at", "unique"} |->
                 CASE k = "user_id" -> PyStr(memory.user_id)
                   [] k = "agent_id" -> PyStr(memory.agent_id)
                   [] k = "memory_type" -> PyStr(memory.memory_type)
                   [] k = "role" -> PyStr(memory.role)
                   [] k = "content_text" -> PyStr("text")
                   [] k = "created_at" -> PyStr(memory.created_at)
                   [] k = "unique" -> [vt |-> "bool",
                                       v |-> IF memory.unique THEN "True" ELSE "False"]]
      meta == [k \in DOMAIN memory.metadata |-> Str(memory.metadata[k])]
      tools == IF memory.tools.vt = "list" /\ memory.tools.v # "[]"
               THEN [k \in {"tools"} |-> JsonDump(memory.tools)]
               ELSE EmptyDict
      content == [k \in {"content"} |-> JsonDump(memory.content)]
  IN Override(Override(Override(base, meta), tools), content)

\* deserialize_memory raises: validation of the Memory model rejects the role
\* or the memory type, or fromisoformat rejects the date
DeserializeRaises(metadata) ==
  \/ metadata["role"].v \notin MemoryRoles
  \/ metadata["memory_type"].v \notin MemoryTypes
  \/ metadata["created_at"].v \notin IsoStrings

\* deserialize_memory
deserialize_memory(memory_id, metadata, embedding) ==
  LET tools == IF "tools" \in DOMAIN metadata /\ ~JsonDecodeError(metadata["tools"])
               THEN JsonLoad(metadata["tools"]) ELSE PyNone
      popped == [k \in DOMAIN metadata \ {"tools"} |-> metadata[k]]
  IN [id |-> memory_id,
      user_id |-> popped["user_id"].v,
      agent_id |-> popped["agent_id"].v,
      content |-> JsonLoad(popped["content"]),
      memory_type |-> popped["memory_type"].v,
      metadata |-> [k \in DOMAIN popped \ ReservedKeys |-> popped[k]],
      role |-> popped["role"].v,
      tools |-> tools,
      embedding |-> embedding,
      created_at |-> popped["created_at"].v,
      unique |-> popped["unique"].v = "True"]

VecRest == v_pc = "idle" /\ v_meta = EmptyDict /\ v_out = <<>>

VecInit == v_rec \in VecRecords /\ VecRest

VecIdle == v_rec = <<>> /\ VecRest

\* metadata = serialize_memory(r)
V_Serialize ==
  /\ v_pc = "idle"
  /\ IF SerializeRaises(v_rec)
     THEN v_pc' = "raised" /\ v_meta' = v_meta
     ELSE v_pc' = "serialized" /\ v_meta' = serialize_memory(v_rec)
  /\ UNCHANGED <<v_rec, v_out>>
  /\ Others_Vec

\* deserialize_memory(str(r.id), metadata, r.embedding)
V_Deserialize ==
  /\ v_pc = "serialized"
  /\ IF DeserializeRaises(v_meta)
     THEN v_pc' = "raised" /\ v_out' = v_out
     ELSE /\ v_pc' = "deserialized"
          /\ v_out' = deserialize_memory(v_rec.id, v_meta, v_rec.embedding)
  /\ UNCHANGED <<v_rec, v_meta>>
  /\ Others_Vec

VecNext ==
  \/ V_Serialize
  \/ V_Deserialize

\* C11: for every valid record r, deserialize_memory(str(r.id),
\* serialize_memory(r), r.embedding) raises nothing and equals r in every
\* field: metadata values of every scalar type, metadata keys of any name,
\* the tools list (empty or not), unique, role, memory_type and created_at.
C11_VectorRoundTrip ==
  /\ v_pc # "raised"
  /\ v_pc = "deserialized" => v_out = v_rec

(***************************************************************************)
(* LocalStorage.load_memory and delete_memory, MemoryStream.delete_memory  *)
(* and get_memory, running against the write worker                        *)
(***************************************************************************)

LdIdle == [pc |-> "idle", id |-> None, snap |-> None, caller |-> "none"]
NoDelete == [id |-> None, returned |-> FALSE, in_cache |-> FALSE, on_disk |-> FALSE]
NoLookup == [op |-> "none", id |-> None, result |-> None, changed |-> FALSE]

StoRest == ld = LdIdle /\ del_post = NoDelete /\ look = NoLookup
StoInit == StoRest /\ cache_size = default_cache_size

\* LocalStorage.delete_memory on the cache c and the directory f
StorageDelete(c, f, i) ==
  IF f[i] # NoFile
  THEN [cache |-> [c EXCEPT ![i] = None], files |-> [f EXCEPT ![i] = NoFile],
        returned |-> TRUE]
  ELSE [cache |-> c, files |-> f, returned |-> FALSE]

DeletePost(i, r) ==
  [id |-> i, returned |-> r.returned,
   in_cache |-> r.cache[i] # None, on_disk |-> r.files[i] # NoFile]

\* await storage.delete_memory(memory_id), called directly
STO_Delete ==
  /\ \E i \in Ids :
       LET r == StorageDelete(memory_cache, files, i)
       IN /\ memory_cache' = r.cache
          /\ files' = r.files
          /\ del_post' = DeletePost(i, r)
  /\ UNCHANGED <<nobj, objId, objVal, awaited, memories, stream_cache, save_queue,
                 initialized, spc, sbatch, write_queue, wpc, wbatch, wsnap, umi,
                 issued, lastIssued, to_dict_failed, ld, look, cache_size>>
  /\ Others_Sto

\* MemoryStream.delete_memory: only for an id in self.memories
STO_StreamDelete ==
  /\ \E i \in Ids :
       /\ memories[i] # None
       /\ memories' = [memories EXCEPT ![i] = None]
       /\ stream_cache' = SelectSeq(stream_cache, LAMBDA k : k # i)
       /\ LET r == StorageDelete(memory_cache, files, i)
          IN /\ memory_cache' = r.cache
             /\ files' = r.files
             /\ del_post' = DeletePost(i, r)
  /\ UNCHANGED <<nobj, objId, objVal, awaited, save_queue, initialized, spc, sbatch,
                 write_queue, wpc, wbatch, wsnap, umi, issued, lastIssued,
                 to_dict_failed, ld, look, cache_size>>
  /\ Others_Sto

\* load_memory up to "async with aiofiles.open(memory_path, 'r')": a cache hit
\* and a missing file return at once
STO_LoadStart ==
  /\ ld.pc = "idle"
  /\ \E i \in Ids :
       IF memory_cache[i] = None /\ files[i] # NoFile
       THEN /\ ld' = [pc |-> "open", id |-> i, snap |-> None, caller |-> "storage"]
            /\ look' = look
       ELSE /\ ld' = ld
            /\ look' = IF memory_cache[i] = None
                       THEN [op |-> "load_memory", id |-> i, result |-> None,
                             changed |-> FALSE]
                       ELSE look
  /\ UNCHANGED <<storeVars, del_post, cache_size>>
  /\ Others_Sto

\* the open and the read in the worker thread: a file removed since the
\* exists() test makes open raise, an empty one makes json.loads raise
STO_LoadRead ==
  /\ ld.pc = "open"
  /\ ld' = IF files[ld.id] \in {NoFile, EmptyFile} THEN LdIdle
           ELSE [ld EXCEPT !.pc = "read", !.snap = files[ld.id]]
  /\ UNCHANGED <<storeVars, del_post, look, cache_size>>
  /\ Others_Sto

\* _deserialize_memory, from_dict, self._memory_cache[memory_id] = memory
STO_LoadFinish ==
  /\ ld.pc = "read" /\ ld.caller = "storage"
  /\ nobj < MaxStoObjs
  /\ nobj' = nobj + 1
  /\ objId' = [objId EXCEPT ![nobj + 1] = ld.id]
  /\ objVal' = [objVal EXCEPT ![nobj + 1] = ld.snap]
  /\ memory_cache' = [memory_cache EXCEPT ![ld.id] = nobj + 1]
  /\ ld' = LdIdle
  /\ UNCHANGED <<awaited, memories, stream_cache, save_queue, initialized, spc,
                 sbatch, write_queue, files, wpc, wbatch, wsnap, umi, issued,
                 lastIssued, to_dict_failed, del_post, look, cache_size>>
  /\ Others_Sto

\* LocalStorage.initialize: the write worker is started
STO_Initialize ==
  /\ wpc = "off"
  /\ wpc' = "get"
  /\ UNCHANGED <<nobj, objId, objVal, awaited, memories, stream_cache, save_queue,
                 initialized, spc, sbatch, write_queue, memory_cache, files, wbatch,
                 wsnap, umi, issued, lastIssued, to_dict_failed, ld, del_post, look, cache_size>>
  /\ Others_Sto

\* LocalStorage.save_memory(memory) for a newly constructed memory
STO_Save ==
  /\ \E i \in Ids :
       /\ nobj < MaxStoObjs
       /\ SaveArg(nobj + 1, i)
       /\ write_queue' = Append(write_queue, nobj + 1)
  /\ UNCHANGED <<awaited, memories, stream_cache, save_queue, initialized, spc,
                 sbatch, memory_cache, files, wpc, wbatch, wsnap, umi,
                 to_dict_failed, ld, del_post, look, cache_size>>
  /\ Others_Sto

StoNext ==
  \/ STO_Initialize
  \/ STO_Save
  \/ WriterTake
  \/ WriterWrite
  \/ WriterNext
  \/ STO_Delete
  \/ STO_LoadStart
  \/ STO_LoadRead
  \/ STO_LoadFinish

\* C12: once delete_memory(id) has returned, id is in neither _memory_cache
\* nor the persist directory, whatever load or batch write of that id was in
\* progress; a further delete_memory(id) changes nothing.
C12_DeleteRemoves ==
  del_post.id # None => (~del_post.in_cache /\ ~del_post.on_disk)

(***************************************************************************)
(* MemoryStream.get_memory and ChromaMemoryManager.get_memory_by_id        *)
(***************************************************************************)

InCache(cache, i) == \E k \in 1..Len(cache) : cache[k] = i

\* the id is in neither the stream (cache, memories) nor the storage (cache,
\* persist directory)
Absent_Everywhere(i) ==
  /\ ~InCache(stream_cache, i) /\ memories[i] = None
  /\ memory_cache[i] = None /\ files[i] = NoFile

\* a get_memory that queues whatever it found, None included
AfterLookup_AlwaysQueues(m, queue) == Append(queue, m)

\* get_memory, "if memory: memory.last_accessed = now; await _save_queue.put(memory)"
AfterLookup(m, queue) == IF m # None THEN Append(queue, m) ELSE queue

\* get_memory for the cases that do not wait for a file: a hit in _cache, a
\* hit in self.memories, a hit in the storage's cache, or a miss
GetMemoryNow(i) ==
  LET m == IF InCache(stream_cache, i) \/ memories[i] # None THEN memories[i]
           ELSE memory_cache[i]
      fromStorage == ~InCache(stream_cache, i) /\ memories[i] = None /\ m # None
  IN [result |-> m,
      memories |-> IF fromStorage THEN [memories EXCEPT ![i] = m] ELSE memories,
      cache |-> IF fromStorage THEN UpdateCache(stream_cache, i) ELSE stream_cache,
      queue |-> AfterLookup(m, save_queue)]

\* whether get_memory(i) has to read the file
GetMemoryWaits(i) ==
  /\ ~InCache(stream_cache, i) /\ memories[i] = None
  /\ memory_cache[i] = None /\ files[i] # NoFile

\* MemoryStream.get_memory(memory_id), up to its return or to the file read
STR_GetMemory ==
  /\ ld.pc = "idle" /\ Len(save_queue) < MaxQueued
  /\ \E i \in Ids :
       IF GetMemoryWaits(i)
       THEN /\ ld' = [pc |-> "open", id |-> i, snap |-> None, caller |-> "stream"]
            /\ UNCHANGED <<memories, stream_cache, save_queue, look>>
       ELSE LET r == GetMemoryNow(i)
            IN /\ memories' = r.memories
               /\ stream_cache' = r.cache
               /\ save_queue' = r.queue
               /\ ld' = ld
               /\ look' = IF Absent_Everywhere(i)
                          THEN [op |-> "get_memory", id |-> i, result |-> r.result,
                                changed |-> <<r.memories, r.cache, r.queue>>
                                              # <<memories, stream_cache, save_queue>>]
                          ELSE look
  /\ UNCHANGED <<nobj, objId, objVal, awaited, initialized, spc, sbatch, write_queue,
                 memory_cache, files, wpc, wbatch, wsnap, umi, issued, lastIssued,
                 to_dict_failed, del_post, cache_size>>
  /\ Others_Sto

\* get_memory after storage.load_memory has read the file: the record is put
\* in the storage's cache, in self.memories and in _cache, and queued
STR_GetMemoryResume ==
  /\ ld.pc = "read" /\ ld.caller = "stream"
  /\ nobj < MaxStoObjs
  /\ nobj' = nobj + 1
  /\ objId' = [objId EXCEPT ![nobj + 1] = ld.id]
  /\ objVal' = [objVal EXCEPT ![nobj + 1] = ld.snap]
  /\ memory_cache' = [memory_cache EXCEPT ![ld.id] = nobj + 1]
  /\ memories' = [memories EXCEPT ![ld.id] = nobj + 1]
  /\ stream_cache' = UpdateCache(stream_cache, ld.id)
  /\ save_queue' = AfterLookup(nobj + 1, save_queue)
  /\ ld' = LdIdle
  /\ UNCHANGED <<awaited, initialized, spc, sbatch, write_queue, files, wpc, wbatch,
                 wsnap, umi, issued, lastIssued, to_dict_failed, del_post, look,
                 cache_size>>
  /\ Others_Sto

\* ChromaMemoryManager.get_memory_by_id: None when the collection returns no
\* id, MemoryError when the stored metadata cannot be deserialized
GetMemoryById(coll, id) ==
  IF id > Len(coll) THEN [raised |-> FALSE, result |-> None]
  ELSE IF coll[id].ok THEN [raised |-> FALSE, result |-> id]
  ELSE [raised |-> TRUE, result |-> None]

CH_GetMemoryById ==
  /\ \E id \in 1..(MaxRecords + 1) :
       LET r == GetMemoryById(collection, id)
       IN look' = IF id > Len(collection)
                  THEN [op |-> "get_memory_by_id", id |-> id,
                        result |-> IF r.raised THEN NoFile ELSE r.result,
                        changed |-> FALSE]
                  ELSE look
  /\ UNCHANGED <<storeVars, ld, del_post, cache_size>>
  /\ Others_Sto

\* MemoryStream.add_memory(memory) for a newly constructed memory
STR_AddMemory ==
  /\ initialized
  /\ \E i \in Ids :
       /\ nobj < MaxStoObjs
       /\ SaveArg(nobj + 1, i)
       /\ memories' = [memories EXCEPT ![i] = nobj + 1]
       /\ stream_cache' = UpdateCache(stream_cache, i)
       /\ save_queue' = Append(save_queue, nobj + 1)
  /\ UNCHANGED <<awaited, initialized, spc, sbatch, write_queue, memory_cache,
                 files, wpc, wbatch, wsnap, umi, to_dict_failed, ld, del_post, look,
                 cache_size>>
  /\ Others_Sto

\* MemoryStream.update_memory(memory) for a newly constructed memory
STR_UpdateMemory ==
  /\ \E i \in Ids :
       /\ nobj < MaxStoObjs
       /\ SaveArg(nobj + 1, i)
       /\ memories[i] # None
       /\ memories' = [memories EXCEPT ![i] = nobj + 1]
       /\ stream_cache' = UpdateCache(stream_cache, i)
       /\ write_queue' = Append(write_queue, nobj + 1)
  /\ UNCHANGED <<awaited, initialized, spc, sbatch, save_queue, memory_cache,
                 files, wpc, wbatch, wsnap, umi, to_dict_failed, ld, del_post, look,
                 cache_size>>
  /\ Others_Sto

StrNext ==
  \/ EnsureInitialized
  \/ STR_AddMemory
  \/ STR_UpdateMemory
  \/ STR_GetMemory
  \/ STO_LoadRead
  \/ STR_GetMemoryResume
  \/ STO_StreamDelete
  \/ STO_LoadStart
  \/ STO_LoadFinish
  \/ CH_GetMemoryById

\* C13: a lookup of an id that is in neither the cache nor the backing store
\* (load_memory, get_memory, get_memory_by_id) returns None, raises nothing
\* and leaves the cache, the backing store and the save queues unchanged.
C13_LookupMissIsNone ==
  look.op # "none" => (look.result = None /\ ~look.changed)

C13_Witness ==
  /\ look.op = "get_memory" /\ look.result = None
  /\ initialized /\ save_queue # <<>>
  /\ \E i \in Ids : memories[i] # None

\* the ids whose entry of self.memories was assigned by the step: add_memory,
\* update_memory, get_memory after a load, and the initialization load
Stored == {i \in Ids : memories'[i] # None /\ memories'[i] # memories[i]}

\* a step that stored one record leaves it in the cache; the cache is the old
\* one if the id was in it, the old one with the id appended if there was
\* room, and otherwise the old one without its earliest inserted key, with
\* the id appended
EvictsEarliest ==
  \A i \in Ids :
    Stored = {i} =>
      stream_cache' =
        IF InCache(stream_cache, i) THEN stream_cache
        ELSE IF Len(stream_cache) < cache_size THEN Append(stream_cache, i)
        ELSE Append(Tail(stream_cache), i)

Tasks == 1..MaxTasks

InitInit ==
  /\ in_pc = [t \in Tasks |-> "idle"] /\ in_lock = None
  /\ writer_tasks = 0 /\ save_tasks = 0 /\ store_loads = 0

\* a guard that is always taken
NeedsInit_Always(flag) == TRUE

\* "if not self._initialized"
NeedsInit(flag) == ~flag

\* the body of "async with self._initialization_lock" up to its first wait:
\* an initialized stream releases the lock at once; otherwise
\* storage.initialize() creates the write worker (if there is none) and
\* initialize() starts listing the backing store
EnterLock(t) ==
  IF NeedsInit(initialized)
  THEN /\ in_pc' = [in_pc EXCEPT ![t] = "loading"]
       /\ in_lock' = t
       /\ writer_tasks' = IF wpc = "off" THEN writer_tasks + 1 ELSE writer_tasks
       /\ wpc' = IF wpc = "off" THEN "get" ELSE wpc
       /\ store_loads' = store_loads + 1
  ELSE /\ in_pc' = [in_pc EXCEPT ![t] = "done"]
       /\ UNCHANGED <<in_lock, writer_tasks, wpc, store_loads>>

\* a task calls add_memory, get_all_memories, ...: await ensure_initialized()
IN_Call ==
  /\ \E t \in Tasks :
       /\ in_pc[t] = "idle"
       /\ IF in_lock = None THEN EnterLock(t)
          ELSE /\ in_pc' = [in_pc EXCEPT ![t] = "waiting"]
               /\ UNCHANGED <<in_lock, writer_tasks, wpc, store_loads>>
  /\ UNCHANGED <<nobj, objId, objVal, awaited, memories, stream_cache, save_queue,
                 initialized, spc, sbatch, write_queue, memory_cache, files, wbatch,
                 wsnap, umi, issued, lastIssued, to_dict_failed, save_tasks>>
  /\ Others_Init

\* a task waiting for the lock gets it
IN_Resume ==
  /\ in_lock = None
  /\ \E t \in Tasks : in_pc[t] = "waiting" /\ EnterLock(t)
  /\ UNCHANGED <<nobj, objId, objVal, awaited, memories, stream_cache, save_queue,
                 initialized, spc, sbatch, write_queue, memory_cache, files, wbatch,
                 wsnap, umi, issued, lastIssued, to_dict_failed, save_tasks>>
  /\ Others_Init

\* the store is loaded: _process_memory on every record, _initialized = True,
\* the save worker is created, the lock is released
IN_LoadDone ==
  /\ \E t \in Tasks :
       /\ in_pc[t] = "loading" /\ in_lock = t
       /\ in_pc' = [in_pc EXCEPT ![t] = "done"]
  /\ InitializeEffect
  /\ in_lock' = None
  /\ save_tasks' = save_tasks + 1
  /\ UNCHANGED <<writer_tasks, store_loads>>
  /\ Others_Init

InitNext ==
  \/ IN_Call
  \/ IN_Resume
  \/ IN_LoadDone

\* C14: however many tasks make the first use concurrently, at most one
\* storage write worker and one stream save worker are ever created and the
\* backing store is loaded at most once; when a task's ensure_initialized has
\* returned, each of the three has happened exactly once.
C14_InitializedOnce ==
  /\ writer_tasks <= 1 /\ save_tasks <= 1 /\ store_loads <= 1
  /\ (\E t \in Tasks : in_pc[t] = "done")
       => (writer_tasks = 1 /\ save_tasks = 1 /\ store_loads = 1)

C14_Witness ==
  /\ \A t \in Tasks : in_pc[t] = "done"
  /\ writer_tasks = 1 /\ save_tasks = 1 /\ store_loads = 1
  /\ \E i \in Ids : memories[i] # None

(***************************************************************************)
(* ToolSimilarityPlugin (unifai/memory/tool_plugin.py), default config.    *)
(* Scores are exact fractions num/den; the bonuses are in tenths.          *)
(***************************************************************************)

tool_match_bonus == 5   \* 0.5
sequence_bonus == 6     \* 0.6
recency_weight == 2     \* 0.2

ToolLists == {<<>>, <<"search">>, <<"swap", "search">>}
CandidateMemories == [tools : ToolLists, created_at : {1, 2}]

ToolNames(tools) == {tools[i] : i \in 1..Len(tools)}

\* sorted(idx, key=created_at, reverse=True): stable, non-increasing
RECURSIVE SortByCreatedDesc(_, _)
SortByCreatedDesc(idx, mems) ==
  IF idx = <<>> THEN <<>>
  ELSE LET j == CHOOSE j \in 1..Len(idx) :
                  /\ \A i \in 1..Len(idx) :
                       mems[idx[i]].created_at <= mems[idx[j]].created_at
                  /\ \A i \in 1..(j - 1) :
                       mems[idx[i]].created_at < mems[idx[j]].created_at
       IN <<idx[j]>> \o SortByCreatedDesc(SubSeq(idx, 1, j - 1)
                                          \o SubSeq(idx, j + 1, Len(idx)), mems)

\* recent_memories: the indices of the memories that have tools, newest first
RecentMemories(mems) ==
  LET HasTools(j) == mems[j].tools # <<>>
  IN SortByCreatedDesc(SelectSeq([j \in 1..Len(mems) |-> j], HasTools), mems)

\* context_sequence: the tool sequences of the recent memories, concatenated
RECURSIVE ContextSequence(_, _)
ContextSequence(recent, mems) ==
  IF recent = <<>> THEN <<>>
  ELSE mems[Head(recent)].tools \o ContextSequence(Tail(recent), mems)

\* the table filled with the smaller neighbour where the names differ
SequenceSimilarity_MinOfNeighbours(seq1, seq2) ==
  IF seq1 = <<>> \/ seq2 = <<>> THEN [num |-> 0, den |-> 1]
  ELSE LET m == Len(seq1)
           n == Len(seq2)
           dp[i \in 0..m, j \in 0..n] ==
             IF i = 0 \/ j = 0 THEN 0
             ELSE IF seq1[i] = seq2[j] THEN dp[i - 1, j - 1] + 1
             ELSE Min(dp[i - 1, j], dp[i, j - 1])
       IN [num |-> 2 * dp[m, n], den |-> m + n]

\* _calculate_sequence_similarity: 2 * LCS / (m + n) as a fraction
SequenceSimilarity(seq1, seq2) ==
  IF seq1 = <<>> \/ seq2 = <<>> THEN [num |-> 0, den |-> 1]
  ELSE LET m == Len(seq1)
           n == Len(seq2)
           dp[i \in 0..m, j \in 0..n] ==
             IF i = 0 \/ j = 0 THEN 0
             ELSE IF seq1[i] = seq2[j] THEN dp[i - 1, j - 1] + 1
             ELSE Max(dp[i - 1, j], dp[i, j - 1])
       IN [num |-> 2 * dp[m, n], den |-> m + n]

\* min(base_score, 1.0)
CapAtOne(f) == IF f.num > f.den THEN [num |-> 1, den |-> 1] ELSE f

\* the position (from 0) of memory j in recent_memories
RecentIndex(recent, j) == (CHOOSE i \in 1..Len(recent) : recent[i] = j) - 1

\* calculate_scores(memories, context)
CalculateScores(mems) ==
  LET recent == RecentMemories(mems)
      context_tools == UNION {ToolNames(mems[j].tools) : j \in 1..Len(mems)}
      context_sequence == ContextSequence(recent, mems)
      Score(j) ==
        LET memory_tools == ToolNames(mems[j].tools)
            intersection == Cardinality(memory_tools \cap context_tools)
            union == Cardinality(memory_tools \cup context_tools)
            seq == SequenceSimilarity(context_sequence, mems[j].tools)
            \* intersection/union + bonus/10 + seq * sequence_bonus/10
            den == union * Scale * seq.den
            num == intersection * Scale * seq.den
                   + (IF intersection > 0 THEN tool_match_bonus * union * seq.den ELSE 0)
                   + seq.num * sequence_bonus * union
            \* recency_factor = 1 - idx * recency_weight/10
            recency == Scale - RecentIndex(recent, j) * recency_weight
        IN CapAtOne([num |-> num * recency, den |-> den * Scale])
  IN [j \in 1..Len(mems) |->
        IF context_tools = {} \/ mems[j].tools = <<>>
        THEN [num |-> 0, den |-> 1]
        ELSE Score(j)]

ToolRest == ts_pc = "idle" /\ ts_scores = <<>>

ToolInit ==
  /\ ts_memories \in UNION {[1..n -> CandidateMemories] : n \in 0..MaxCands}
  /\ ToolRest

ToolIdle == ts_memories = <<>> /\ ToolRest

TS_CalculateScores ==
  /\ ts_pc = "idle"
  /\ ts_pc' = "scored"
  /\ ts_scores' = CalculateScores(ts_memories)
  /\ UNCHANGED ts_memories
  /\ Others_Tool

ToolNext == TS_CalculateScores

\* C17: every score calculate_scores returns is a number in [0, 1], for the
\* default configuration and any candidate list.
C17_ToolScoreInUnitInterval ==
  ts_pc = "scored" =>
    /\ Len(ts_scores) = Len(ts_memories)
    /\ \A j \in 1..Len(ts_scores) :
         /\ ts_scores[j].den > 0
         /\ ts_scores[j].num >= 0
         /\ ts_scores[j].num <= ts_scores[j].den

(***************************************************************************)
(* EmbeddingGenerator.get_embedding (unifai/agent/memory/embedding.py) and *)
(* MemoryManager.add_memory (agiverse/agent/memory/manager.py).            *)
(***************************************************************************)

stop_after_attempt == 3
dimension == 1536       \* EmbeddingGenerator.dimension

Zeros(n) == [i \in 1..n |-> 0]

\* what model_manager.embedding can do: return a well-formed response, raise,
\* or return a response that response['data'][0]['embedding'] cannot index
ProviderOutcomes ==
  {[kind |-> "ok", embedding |-> <<6, 8>>],
   [kind |-> "raises", embedding |-> <<>>],
   [kind |-> "none", embedding |-> <<>>],             \* TypeError
   [kind |-> "no_data", embedding |-> <<>>],          \* KeyError
   [kind |-> "empty_data", embedding |-> <<>>],       \* IndexError
   [kind |-> "no_embedding", embedding |-> <<>>]}     \* KeyError

\* a get_embedding that lets the provider's exception through
GetEmbedding_Propagates(provider) ==
  IF provider.kind = "ok"
  THEN [raised |-> FALSE, value |-> provider.embedding]
  ELSE [raised |-> TRUE, value |-> <<>>]

\* get_embedding: every Exception of the try block ends in the zero vector
GetEmbedding(provider) ==
  IF provider.kind = "ok"
  THEN [raised |-> FALSE, value |-> provider.embedding]
  ELSE [raised |-> FALSE, value |-> Zeros(dimension)]

MMRest ==
  /\ mm_pc = "idle" /\ mm_embedding = <<>> /\ mm_memory = <<>> /\ mm_stream = <<>>

MMInit ==
  /\ mm_content \in {"", "c"}
  /\ mm_type \in {"observation", "working_memory"}
  /\ mm_provider \in ProviderOutcomes
  /\ MMRest

MMIdle ==
  /\ mm_content = "" /\ mm_type = "observation"
  /\ mm_provider = [kind |-> "raises", embedding |-> <<>>]
  /\ MMRest

\* add_memory, line 17: await self.embedding_generator.get_embedding(...)
MM_GetEmbedding ==
  /\ mm_pc = "idle"
  /\ LET r == GetEmbedding(mm_provider)
     IN IF r.raised
        THEN mm_pc' = "raised" /\ UNCHANGED mm_embedding
        ELSE mm_pc' = "embedded" /\ mm_embedding' = r.value
  /\ UNCHANGED <<mm_content, mm_type, mm_provider, mm_memory, mm_stream>>
  /\ Others_MM

\* add_memory, lines 17 to 20: np.array(...) and Memory(...)
MM_Construct ==
  /\ mm_pc = "embedded"
  /\ mm_memory' =
       MemoryNew([id |-> NoId, content |-> mm_content, type |-> mm_type,
                  associated_agents |-> NoAgents, metadata |-> NoMetadata,
                  embedding |-> NpArray([t |-> "list", dtype |-> "", v |-> mm_embedding]),
                  importance_score |-> [t |-> "float", v |-> <<0>>],
                  created_at |-> NoDatetime, last_accessed |-> NoDatetime], 1)
  /\ mm_pc' = "constructed"
  /\ UNCHANGED <<mm_content, mm_type, mm_provider, mm_embedding, mm_stream>>
  /\ Others_MM

\* add_memory, lines 22 to 24: the importance score from the provider
MM_Importance ==
  /\ mm_pc = "constructed"
  /\ \E response \in Responses :
       mm_memory' = [mm_memory EXCEPT !.importance_score =
                       [t |-> "float", v |-> <<CalculateMemoryImportance(response)>>]]
  /\ mm_pc' = "scored"
  /\ UNCHANGED <<mm_content, mm_type, mm_provider, mm_embedding, mm_stream>>
  /\ Others_MM

\* add_memory, lines 25 and 26: memory_stream.add_memory(memory); return memory
MM_AddToStream ==
  /\ mm_pc = "scored"
  /\ mm_stream' = Append(mm_stream, mm_memory)
  /\ mm_pc' = "done"
  /\ UNCHANGED <<mm_content, mm_type, mm_provider, mm_embedding, mm_memory>>
  /\ Others_MM

MMNext ==
  \/ MM_GetEmbedding
  \/ MM_Construct
  \/ MM_Importance
  \/ MM_AddToStream

\* C20: a failure of the embedding provider never reaches the caller:
\* get_embedding returns the zero vector of the configured dimension, and
\* add_memory goes on to create the record and hand it to the stream.
C20_EmbeddingFailureAbsorbed ==
  /\ mm_pc # "raised"
  /\ (mm_pc # "idle" /\ mm_provider.kind # "ok")
       => (Len(mm_embedding) = dimension
            /\ \A i \in 1..dimension : mm_embedding[i] = 0)
  /\ mm_pc = "done"
       => /\ mm_stream = <<mm_memory>>
          /\ mm_memory.content = mm_content
          /\ mm_memory.embedding.v = mm_embedding

C20_Witness ==
  /\ mm_pc = "done" /\ mm_provider.kind = "empty_data"
  /\ Len(mm_stream) = 1
  /\ mm_stream[1].embedding.t = "ndarray"
  /\ mm_stream[1].embedding.v = Zeros(dimension)

(***************************************************************************)
(* ChromaMemoryManager.add_plugin / remove_plugin / list_plugins           *)
(* (unifai/memory/chroma.py).  A plugin's name is its class name.          *)
(***************************************************************************)

PluginNames == {"ToolSimilarityPlugin", "RecencyPlugin", "TopicPlugin"}

HasName(list, name) == \E k \in 1..Len(list) : list[k] = name

\* an add_plugin without the name test
AddPlugin_NoNameTest(list, name) == [raised |-> FALSE, plugins |-> Append(list, name)]

\* add_plugin: ValueError if a plugin of that name is registered, else append
AddPlugin(list, name) ==
  IF HasName(list, name) THEN [raised |-> TRUE, plugins |-> list]
  ELSE [raised |-> FALSE, plugins |-> Append(list, name)]

\* remove_plugin: [p for p in self.plugins if p.name != plugin_name]
RemovePlugin(list, name) ==
  LET Other(n) == n # name IN SelectSeq(list, Other)

RegInit ==
  /\ pr_plugins = <<>> /\ pr_time = [n \in PluginNames |-> 0] /\ pr_clock = 0
  /\ pr_last = [op |-> "none", name |-> "", before |-> <<>>, raised |-> FALSE]
  /\ pr_applied = <<>>

RegIdle == RegInit

PR_AddPlugin ==
  /\ pr_clock < MaxAdds
  /\ \E name \in PluginNames :
       LET r == AddPlugin(pr_plugins, name)
       IN /\ pr_plugins' = r.plugins
          /\ pr_last' = [op |-> "add_plugin", name |-> name, before |-> pr_plugins,
                         raised |-> r.raised]
          /\ pr_clock' = IF r.raised THEN pr_clock ELSE pr_clock + 1
          /\ pr_time' = IF r.raised THEN pr_time
                        ELSE [pr_time EXCEPT ![name] = pr_clock + 1]
  /\ UNCHANGED pr_applied
  /\ Others_Reg

PR_RemovePlugin ==
  /\ \E name \in PluginNames :
       /\ pr_plugins' = RemovePlugin(pr_plugins, name)
       /\ pr_last' = [op |-> "remove_plugin", name |-> name, before |-> pr_plugins,
                      raised |-> FALSE]
       /\ pr_time' = [pr_time EXCEPT ![name] = 0]
  /\ UNCHANGED <<pr_clock, pr_applied>>
  /\ Others_Reg

\* get_memories: "for plugin in self.plugins: ... plugin.rerank(...)"
PR_GetMemories ==
  /\ pr_applied' = pr_plugins
  /\ pr_last' = [op |-> "get_memories", name |-> "", before |-> pr_plugins,
                 raised |-> FALSE]
  /\ UNCHANGED <<pr_plugins, pr_time, pr_clock>>
  /\ Others_Reg

RegNext ==
  \/ PR_AddPlugin
  \/ PR_RemovePlugin
  \/ PR_GetMemories

\* C22: add_plugin with a registered name raises and leaves the list as it
\* was; no two registered plugins share a name; the list holds exactly the
\* registered plugins in the order of their registration, and get_memories
\* applies them in that order.
C22_NoDuplicatePlugins ==
  /\ \A i, j \in 1..Len(pr_plugins) : i # j => pr_plugins[i] # pr_plugins[j]
  /\ pr_last.op = "add_plugin" =>
       /\ pr_last.raised = HasName(pr_last.before, pr_last.name)
       /\ pr_last.raised => pr_plugins = pr_last.before
  /\ \A n \in PluginNames : HasName(pr_plugins, n) = (pr_time[n] # 0)
  /\ \A i, j \in 1..Len(pr_plugins) :
       i < j => pr_time[pr_plugins[i]] < pr_time[pr_plugins[j]]
  /\ pr_last.op = "get_memories" => pr_applied = pr_plugins

C22_Witness ==
  /\ pr_last.op = "add_plugin" /\ pr_last.raised
  /\ Len(pr_plugins) = 2
  /\ pr_time[pr_plugins[1]] > 1
  /\ pr_applied # <<>> /\ pr_applied # pr_plugins

(***************************************************************************)
(* The write worker when a file write raises (LocalStorage._start_write_   *)
(* worker, _batch_write) and the save worker that feeds it.                *)
(***************************************************************************)

WrInit == wr_written = {} /\ wr_failed = {} /\ wr_batchfail = {}
WrIdle == WrInit

BatchMembers(batch) == {batch[k] : k \in 1..Len(batch)}

\* LocalStorage.save_memory(memory) for a memory saved before and modified since
STO_SaveAgain ==
  /\ \E o \in 1..nobj :
       /\ SaveArg(o, objId[o])
       /\ write_queue' = Append(write_queue, o)
  /\ UNCHANGED <<awaited, memories, stream_cache, save_queue, initialized, spc,
                 sbatch, memory_cache, files, wpc, wbatch, wsnap, umi,
                 to_dict_failed, wrVars>>
  /\ Others_Wr

\* the write of the head of the batch completes
WR_Write ==
  /\ WriteFile
  /\ wr_written' = wr_written \cup {Head(wbatch)}
  /\ UNCHANGED <<wr_failed, wr_batchfail>>
  /\ Others_Wr

\* a worker that ends when _batch_write raises
OnWriteError_Terminates == [pc |-> "off", batch |-> <<>>, snap |-> None]

\* _start_write_worker, "except Exception": the batch was taken out of
\* _write_batch before _batch_write, so nothing of it is left; sleep(1)
OnWriteError == [pc |-> "sleep", batch |-> <<>>, snap |-> None]

\* f.write raises (OSError): the file stays as open(path, "w") left it, the
\* exception leaves _batch_write and reaches the worker's except clause
WR_Fail ==
  /\ wpc = "opened"
  /\ Cardinality(wr_failed) < MaxFaults
  /\ wr_failed' = wr_failed \cup {Head(wbatch)}
  /\ wr_batchfail' = wr_batchfail \cup BatchMembers(wbatch)
  /\ wpc' = OnWriteError.pc /\ wbatch' = OnWriteError.batch /\ wsnap' = OnWriteError.snap
  /\ UNCHANGED <<nobj, objId, objVal, awaited, memories, stream_cache, save_queue,
                 initialized, spc, sbatch, write_queue, memory_cache, files, umi,
                 issued, lastIssued, to_dict_failed, wr_written>>
  /\ Others_Wr

WrNext ==
  \/ EnsureInitialized
  \/ STR_AddMemory
  \/ STO_Save
  \/ STO_SaveAgain
  \/ SaverTake
  \/ SaverPut
  \/ WriterTake
  \/ WR_Write
  \/ WR_Fail
  \/ WriterNext
  \/ WriterWake

\* the write worker waits on an empty queue and the save worker has nothing
StorageQuiet ==
  /\ wpc = "get" /\ write_queue = <<>>
  /\ save_queue = <<>> /\ sbatch = <<>>

\* C23: when writing a batch fails part-way the writer retries that batch:
\* once the writer has nothing left to do, every record that was in the
\* failed batch has been written.
C23_FailedBatchRetried ==
  StorageQuiet => wr_batchfail \subseteq wr_written

\* C24: a record whose write fails does not abort its batch: once the writer
\* has nothing left to do, every saved record other than the failing ones has
\* been written and is cached.
C24_OthersStillWritten ==
  StorageQuiet =>
    \A o \in 1..nobj :
      (o \notin wr_failed /\ ~to_dict_failed) =>
         /\ o \in wr_written
         /\ memory_cache[objId[o]] # None

InQueue(q, o) == \E k \in 1..Len(q) : q[k] = o

\* C25: the workers do not end because of a failure: a write worker that
\* sleeps after an exception resumes, and once the workers have been started
\* every record in the write queue or the save queue is eventually taken out
\* of it, whatever failed before.
C25_WorkersResume ==
  /\ [](wpc = "sleep" => <>(wpc = "get"))
  /\ \A o \in Objs :
       /\ []((initialized /\ InQueue(write_queue, o)) => <>(~InQueue(write_queue, o)))
       /\ []((initialized /\ InQueue(save_queue, o)) => <>(~InQueue(save_queue, o)))

\* a record saved after the failing one was taken in a later batch and written
C25_Witness ==
  /\ StorageQuiet
  /\ issued = nobj /\ \A i \in Ids : memories[i] = None
  /\ \E f \in wr_failed, o \in wr_written :
       o > f /\ files[objId[o]] = objVal[o] /\ memory_cache[objId[o]] = o

\* no load_memory call and no batch write is in progress
NoReadOrWriteInProgress ==
  /\ ld.pc = "idle"
  /\ wpc \notin {"opened", "written"}

\* C28: reads are never stale with respect to the flushed state: once the
\* load_memory calls and the batch writes on an id have completed, the cache
\* entry of the id, which is what load_memory returns, is not older than the
\* value most recently written to the file of the id.
C28_CacheNotOlderThanFile ==
  NoReadOrWriteInProgress =>
    \A i \in Ids :
      (memory_cache[i] # None /\ files[i] >= 0) =>
        objVal[memory_cache[i]] >= files[i]

\* every save so far went through LocalStorage.save_memory and no file write
\* raised
OnlyDirectSaves ==
  /\ wr_failed = {}
  /\ \A i \in Ids : memories[i] = None

\* C27: the single writer applies the writes in enqueue order, within a
\* batch and across batches, so once the writer has nothing left to do the
\* file of an id holds the content of the save_memory call enqueued last.
C27_LastEnqueuedWins ==
  (StorageQuiet /\ OnlyDirectSaves) =>
    \A i \in Ids : lastIssued[i] # 0 => files[i] = lastIssued[i]

\* C29: save returns without waiting for the write and persistence is
\* eventual: with the workers scheduled fairly and no file write raising,
\* every record passed to save_memory or add_memory is eventually written to
\* its file (a partially filled batch is flushed when the queue is empty).
C29_EventuallyWritten ==
  \A o \in Objs :
    []((initialized /\ (InQueue(save_queue, o) \/ InQueue(write_queue, o)))
         => <>(o \in wr_written \/ wr_failed # {}))

\* the only Memory object of its id
OnlyObjectOfItsId(o) == \A p \in 1..nobj : objId[p] = objId[o] => p = o

\* C38: a record can be persisted any number of times: Memory.to_dict succeeds
\* on every call for the same object and returns the current field values, so
\* once the writer has nothing left to do and no file write raised, the file
\* of a record that was serialized before and saved again holds the current
\* values of the record.
C38_PersistedAnyNumberOfTimes ==
  /\ ~to_dict_failed
  /\ (StorageQuiet /\ wr_failed = {}) =>
       \A o \in 1..nobj :
         (o \in awaited /\ OnlyObjectOfItsId(o)) => files[objId[o]] = objVal[o]

\* MemoryStream.delete_memory running against the two workers
DelNext ==
  \/ EnsureInitialized
  \/ STR_AddMemory
  \/ STR_UpdateMemory
  \/ STO_StreamDelete
  \/ SaverTake
  \/ SaverPut
  \/ WriterTake
  \/ WriterWrite
  \/ WriterNext

\* a save of id i was issued, delete_memory(i) was called later, and no save
\* of i was issued after the delete (add_memory puts the id in self.memories,
\* update_memory needs it there, only delete_memory takes it out)
DeletedLast(i) == lastIssued[i] # 0 /\ memories[i] = None

\* C37: a deleted record is never resurrected: when delete_memory(id) was
\* called with a save of id still pending and no save of id was issued
\* afterwards, then once the queues are drained id is absent from the
\* persist directory and from both caches.
C37_DeletedStaysDeleted ==
  StorageQuiet =>
    \A i \in Ids :
      DeletedLast(i) =>
        /\ files[i] = NoFile
        /\ memory_cache[i] = None
        /\ ~InCache(stream_cache, i)

(***************************************************************************)
(* LocalStorage.list_all_memories and MemoryStream.initialize over a       *)
(* directory in which a file may hold no valid record.                     *)
(***************************************************************************)

NoRead == [op |-> "none", raised |-> FALSE, result |-> {}, readable |-> {}]
LsInit == ls_last = NoRead
LsIdle == LsInit

\* os.listdir: the ids that have a file
Listed(f) == {i \in Ids : f[i] # NoFile}
\* load_memory(i) raises: no cache entry, and json.loads or _deserialize_memory
\* fails on the content
Unreadable(c, f) == {i \in Ids : c[i] = None /\ f[i] \in {EmptyFile, Corrupt}}
\* load_memory(i) reads the file and builds a new Memory object
Fresh(c, f) == {i \in Listed(f) : c[i] = None /\ f[i] \notin {EmptyFile, Corrupt}}
FreshObj(i) == nobj + Cardinality({j \in Fresh(memory_cache, files) : j <= i})

\* the load_memory calls gathered by list_all_memories: every readable file
\* that is not cached is deserialized into a new object and cached (a call
\* that raises does not cancel the others)
GatherLoads ==
  LET fresh == Fresh(memory_cache, files)
  IN /\ nobj + Cardinality(fresh) <= MaxObjs
     /\ nobj' = nobj + Cardinality(fresh)
     /\ objId' = [o \in Objs |-> IF \E i \in fresh : FreshObj(i) = o
                                  THEN CHOOSE i \in fresh : FreshObj(i) = o
                                  ELSE objId[o]]
     /\ objVal' = [o \in Objs |-> IF \E i \in fresh : FreshObj(i) = o
                                   THEN files[CHOOSE i \in fresh : FreshObj(i) = o]
                                   ELSE objVal[o]]
     /\ memory_cache' = [i \in Ids |-> IF i \in fresh THEN FreshObj(i)
                                       ELSE memory_cache[i]]

\* asyncio.gather(*tasks) without return_exceptions: the first exception of a
\* load_memory call is raised to the caller; otherwise the loaded records
ListAllMemories(c, f) ==
  IF Unreadable(c, f) # {}
  THEN [raised |-> TRUE, ids |-> {}]
  ELSE [raised |-> FALSE, ids |-> Listed(f)]

\* await storage.list_all_memories(), called by a client
LS_ListAllMemories ==
  /\ GatherLoads
  /\ LET r == ListAllMemories(memory_cache, files)
     IN ls_last' = [op |-> "list_all_memories", raised |-> r.raised,
                    result |-> r.ids,
                    readable |-> Listed(files) \ Unreadable(memory_cache, files)]
  /\ UNCHANGED <<awaited, memories, stream_cache, save_queue, initialized, spc,
                 sbatch, write_queue, files, wpc, wbatch, wsnap, umi, issued,
                 lastIssued, to_dict_failed>>
  /\ Others_Ls

\* ensure_initialized (first use): storage.initialize() starts the write
\* worker; initialize() lists the stored records and runs _process_memory on
\* each (to_dict raises on an object whose to_dict was awaited before, and
\* the record is left out); an exception of the listing is logged and
\* self.memories is reset; then the save worker is started
LS_EnsureInitialized ==
  /\ ~initialized
  /\ GatherLoads
  /\ LET r == ListAllMemories(memory_cache, files)
         processed == {i \in r.ids : memory_cache'[i] \notin awaited}
     IN /\ memories' = IF r.raised THEN [i \in Ids |-> None]
                       ELSE [i \in Ids |-> IF i \in processed THEN memory_cache'[i]
                                           ELSE memories[i]]
        /\ stream_cache' = CacheAll(stream_cache, processed)
        /\ awaited' = awaited \cup {memory_cache'[i] : i \in r.ids}
        /\ ls_last' = [op |-> "initialize", raised |-> FALSE,
                       result |-> {i \in Ids : memories'[i] # None},
                       readable |-> Listed(files) \ Unreadable(memory_cache, files)]
  /\ initialized' = TRUE
  /\ wpc' = "get"
  /\ spc' = "get"
  /\ UNCHANGED <<save_queue, sbatch, write_queue, files, wbatch, wsnap, umi,
                 issued, lastIssued, to_dict_failed>>
  /\ Others_Ls

LsNext ==
  \/ LS_ListAllMemories
  \/ LS_EnsureInitialized
  \/ STR_AddMemory
  \/ SaverTake
  \/ SaverPut
  \/ WriterTake
  \/ WriterWrite
  \/ WriterNext

\* C26: a stored record that cannot be deserialized never aborts a read of
\* many records: list_all_memories, and the initialize that uses it, raise
\* nothing and return every stored record that can be read.
C26_CorruptRecordSkipped ==
  ls_last.op # "none" =>
    /\ ~ls_last.raised
    /\ ls_last.readable \subseteq ls_last.result


(***************************************************************************)
(* The file semaphore: every aiofiles.open of LocalStorage (_batch_write,  *)
(* save_memory_immediately, load_memory) is inside                         *)
(* "async with self._file_semaphore".                                      *)
(***************************************************************************)

\* the write worker in _batch_write, a save_memory_immediately call, and the
\* load_memory calls that list_all_memories runs concurrently
FileTasks ==
  {<<"_batch_write", 0>>, <<"save_memory_immediately", 0>>}
    \cup {<<"load_memory", k>> : k \in 1..MaxLoads}

SemRest == fh_pc = [t \in FileTasks |-> "idle"]
SemInit ==
  /\ max_open_files \in 0..MaxOpenFiles
  /\ file_semaphore = max_open_files
  /\ SemRest
SemIdle ==
  /\ max_open_files = default_max_open_files
  /\ file_semaphore = default_max_open_files
  /\ SemRest

\* asyncio.Semaphore.acquire with no test of the value
Acquire_NoWait(value) == [acquired |-> TRUE, value |-> value - 1]

\* asyncio.Semaphore.acquire: taken at once when the value is positive, else
\* the task waits
Acquire(value) ==
  IF value > 0 THEN [acquired |-> TRUE, value |-> value - 1]
  ELSE [acquired |-> FALSE, value |-> value]

\* the file handles LocalStorage holds open
OpenHandles == Cardinality({t \in FileTasks : fh_pc[t] = "open"})

\* the task reaches "async with self._file_semaphore"
SEM_Enter ==
  /\ \E t \in FileTasks :
       /\ fh_pc[t] = "idle"
       /\ fh_pc' = [fh_pc EXCEPT ![t] = "acquire"]
  /\ UNCHANGED <<max_open_files, file_semaphore>>
  /\ Others_Sem

\* the semaphore is acquired (at once, or when a release wakes the waiter)
SEM_Acquire ==
  /\ \E t \in FileTasks :
       /\ fh_pc[t] = "acquire"
       /\ Acquire(file_semaphore).acquired
       /\ file_semaphore' = Acquire(file_semaphore).value
       /\ fh_pc' = [fh_pc EXCEPT ![t] = "held"]
  /\ UNCHANGED max_open_files
  /\ Others_Sem

\* aiofiles.open returns the handle
SEM_Open ==
  /\ \E t \in FileTasks :
       /\ fh_pc[t] = "held"
       /\ fh_pc' = [fh_pc EXCEPT ![t] = "open"]
  /\ UNCHANGED <<max_open_files, file_semaphore>>
  /\ Others_Sem

\* aiofiles.open raises (the file was removed, the directory cannot be written)
SEM_OpenFails ==
  /\ \E t \in FileTasks :
       /\ fh_pc[t] = "held"
       /\ fh_pc' = [fh_pc EXCEPT ![t] = "closed"]
  /\ UNCHANGED <<max_open_files, file_semaphore>>
  /\ Others_Sem

\* the read or write, then the exit of the aiofiles context closes the handle
SEM_Close ==
  /\ \E t \in FileTasks :
       /\ fh_pc[t] = "open"
       /\ fh_pc' = [fh_pc EXCEPT ![t] = "closed"]
  /\ UNCHANGED <<max_open_files, file_semaphore>>
  /\ Others_Sem

\* the exit of "async with self._file_semaphore": release
SEM_Release ==
  /\ \E t \in FileTasks :
       /\ fh_pc[t] = "closed"
       /\ file_semaphore' = file_semaphore + 1
       /\ fh_pc' = [fh_pc EXCEPT ![t] = "idle"]
  /\ UNCHANGED max_open_files
  /\ Others_Sem

SemNext ==
  \/ SEM_Enter
  \/ SEM_Acquire
  \/ SEM_Open
  \/ SEM_OpenFails
  \/ SEM_Close
  \/ SEM_Release

\* C30: the number of file handles LocalStorage holds open at the same time
\* never exceeds max_open_files, for any interleaving of the batch write,
\* save_memory_immediately and the concurrent load_memory calls.
C30_OpenFilesBounded ==
  OpenHandles <= max_open_files

\* max_open_files handles are open and a further task waits for the semaphore
C30_Witness ==
  /\ max_open_files > 0
  /\ OpenHandles = max_open_files
  /\ \E t \in FileTasks : fh_pc[t] = "acquire"


(***************************************************************************)
(* ToolSimilarityPlugin._calculate_sequence_similarity on two tool-name    *)
(* sequences.                                                              *)
(***************************************************************************)

ToolNameSet == {"search", "swap", "bridge"}
ToolSequences == UNION {[1..n -> ToolNameSet] : n \in 0..MaxSeqLen}

SeqRest == sq_pc = "idle" /\ sq_result = [num |-> 0, den |-> 1]
SeqInit == sq_seq1 \in ToolSequences /\ sq_seq2 \in ToolSequences /\ SeqRest
SeqIdle == sq_seq1 = <<>> /\ sq_seq2 = <<>> /\ SeqRest

SQ_Calculate ==
  /\ sq_pc = "idle"
  /\ sq_pc' = "returned"
  /\ sq_result' = SequenceSimilarity(sq_seq1, sq_seq2)
  /\ UNCHANGED <<sq_seq1, sq_seq2>>
  /\ Others_Seq

SeqNext == SQ_Calculate

\* the elements of s at the positions in I, in order
RECURSIVE Pick(_, _)
Pick(s, I) ==
  IF I = {} THEN <<>>
  ELSE LET k == CHOOSE x \in I : \A y \in I : x <= y
       IN <<s[k]>> \o Pick(s, I \ {k})

\* the length of a longest common subsequence of a and b
LcsLength(a, b) ==
  LET common == {Cardinality(I) : I \in {I \in SUBSET (1..Len(a)) :
                    \E J \in SUBSET (1..Len(b)) : Pick(a, I) = Pick(b, J)}}
  IN CHOOSE k \in common : \A l \in common : l <= k

\* C32: _calculate_sequence_similarity returns 2*L/(len(seq1)+len(seq2)), L
\* the length of a longest common subsequence, and 0 when either sequence is
\* empty; the result is in [0,1], symmetric in its arguments, and 1 exactly
\* when the sequences are equal and non-empty.
C32_SequenceSimilarity ==
  sq_pc = "returned" =>
    LET r == sq_result
        swapped == SequenceSimilarity(sq_seq2, sq_seq1)
    IN /\ r.den > 0
       /\ (sq_seq1 = <<>> \/ sq_seq2 = <<>>) => r.num = 0
       /\ (sq_seq1 # <<>> /\ sq_seq2 # <<>>) =>
            r.num * (Len(sq_seq1) + Len(sq_seq2))
              = 2 * LcsLength(sq_seq1, sq_seq2) * r.den
       /\ 0 <= r.num /\ r.num <= r.den
       /\ r.num * swapped.den = swapped.num * r.den
       /\ (r.num = r.den) <=> (sq_seq1 = sq_seq2 /\ sq_seq1 # <<>>)

\* two different sequences of different lengths that share a subsequence
\* which is not contiguous in the longer one
C32_Witness ==
  /\ sq_pc = "returned"
  /\ sq_seq1 = <<"search", "swap", "bridge">> /\ sq_seq2 = <<"search", "bridge">>
  /\ sq_result.num * 5 = 4 * sq_result.den


(***************************************************************************)
(* consolidate_fact_memories: facts whose text is similar to an earlier    *)
(* fact are merged with it into one record.                                *)
(***************************************************************************)

FactTexts == {"likes tea", "lives in Oslo"}

ConsRest ==
  /\ co_pc = "idle" /\ co_i = 0 /\ to_remove = {} /\ similar_facts = <<>>
  /\ co_k = 0 /\ co_merged = {} /\ co_log = <<>>
ConsInit ==
  /\ all_facts \in UNION {[1..n -> FactTexts] : n \in 0..MaxFacts}
  /\ co_helpers \in BOOLEAN
  /\ co_stored = 1..Len(all_facts)
  /\ ConsRest
ConsIdle ==
  /\ all_facts = <<>> /\ co_helpers = TRUE /\ co_stored = {}
  /\ ConsRest

\* calculate_similarity(text1, text2) > similarity_threshold
Similar(facts, i, j) == facts[i] = facts[j]

\* the later facts the inner loop compares with fact1
Compared(facts, i, removed) == {j \in (i + 1)..Len(facts) : j \notin removed}

\* similar_facts after the inner loop for fact1 = all_facts[i]
SimilarFacts(facts, i, removed) ==
  LET idx == [j \in 1..Len(facts) |-> j]
      Keep(j) == j = i \/ (j \in Compared(facts, i, removed) /\ Similar(facts, i, j))
  IN SelectSeq(idx, Keep)

\* all_facts = await memory_manager.get_memories_by_type(...)
CO_Start ==
  /\ co_pc = "idle"
  /\ co_pc' = "outer"
  /\ co_i' = 1
  /\ UNCHANGED <<all_facts, co_helpers, to_remove, similar_facts, co_k, co_stored,
                 co_merged, co_log>>
  /\ Others_Cons

\* one turn of the outer loop up to "if len(similar_facts) > 1" (no await);
\* the first call of calculate_similarity raises NameError when the helper
\* is not defined
CO_Scan ==
  /\ co_pc = "outer" /\ co_i <= Len(all_facts)
  /\ IF co_i \in to_remove
     THEN /\ co_i' = co_i + 1
          /\ UNCHANGED <<co_pc, to_remove, similar_facts>>
     ELSE IF ~co_helpers /\ Compared(all_facts, co_i, to_remove) # {}
     THEN /\ co_pc' = "raised"
          /\ UNCHANGED <<co_i, to_remove, similar_facts>>
     ELSE LET sim == SimilarFacts(all_facts, co_i, to_remove)
          IN /\ similar_facts' = sim
             /\ to_remove' = to_remove \cup ({sim[k] : k \in 1..Len(sim)} \ {co_i})
             /\ IF Len(sim) > 1
                THEN co_pc' = "merge" /\ co_i' = co_i
                ELSE co_pc' = "outer" /\ co_i' = co_i + 1
  /\ UNCHANGED <<all_facts, co_helpers, co_k, co_stored, co_merged, co_log>>
  /\ Others_Cons

\* consolidated_memory = await merge_memories(similar_facts)
CO_Merge ==
  /\ co_pc = "merge"
  /\ co_pc' = "removing"
  /\ co_k' = 1
  /\ UNCHANGED <<all_facts, co_helpers, co_i, to_remove, similar_facts, co_stored,
                 co_merged, co_log>>
  /\ Others_Cons

\* await memory_manager.remove_memory(fact.id) for the next similar fact
CO_Remove ==
  /\ co_pc = "removing" /\ co_k <= Len(similar_facts)
  /\ co_stored' = co_stored \ {similar_facts[co_k]}
  /\ co_log' = Append(co_log, [op |-> "remove_memory", fact |-> similar_facts[co_k],
                               fact1 |-> co_i])
  /\ co_k' = co_k + 1
  /\ UNCHANGED <<all_facts, co_helpers, co_pc, co_i, to_remove, similar_facts,
                 co_merged>>
  /\ Others_Cons

\* await memory_manager.create_memory(consolidated_memory) returns
CO_Create ==
  /\ co_pc = "removing" /\ co_k > Len(similar_facts)
  /\ co_merged' = co_merged \cup {co_i}
  /\ co_log' = Append(co_log, [op |-> "create_memory", fact |-> co_i, fact1 |-> co_i])
  /\ co_pc' = "outer"
  /\ co_i' = co_i + 1
  /\ UNCHANGED <<all_facts, co_helpers, to_remove, similar_facts, co_k, co_stored>>
  /\ Others_Cons

\* create_memory raises MemoryError (the embedding or collection.add failed)
CO_CreateFails ==
  /\ co_pc = "removing" /\ co_k > Len(similar_facts)
  /\ co_pc' = "raised"
  /\ UNCHANGED <<all_facts, co_helpers, co_i, to_remove, similar_facts, co_k,
                 co_stored, co_merged, co_log>>
  /\ Others_Cons

\* return len(consolidated)
CO_Return ==
  /\ co_pc = "outer" /\ co_i > Len(all_facts)
  /\ co_pc' = "done"
  /\ UNCHANGED <<all_facts, co_helpers, co_i, to_remove, similar_facts, co_k,
                 co_stored, co_merged, co_log>>
  /\ Others_Cons

ConsNext ==
  \/ CO_Start
  \/ CO_Scan
  \/ CO_Merge
  \/ CO_Remove
  \/ CO_Create
  \/ CO_CreateFails
  \/ CO_Return

EmRest == em_pc = "idle" /\ em_calls = 0 /\ em_result = <<>>
EmInit == em_outcomes \in [1..stop_after_attempt -> ProviderOutcomes] /\ EmRest
EmIdle ==
  /\ em_outcomes = [k \in 1..stop_after_attempt |-> [kind |-> "raises", embedding |-> <<>>]]
  /\ EmRest

\* tenacity's retry loop around the decorated function: another attempt
\* (after the wait) only when the function raised and the attempt limit is
\* not reached; the last attempt's exception is raised as RetryError
RECURSIVE Retrying(_, _)
Retrying(outcomes, attempt) ==
  LET r == GetEmbedding(outcomes[attempt])
  IN IF r.raised /\ attempt < stop_after_attempt
     THEN Retrying(outcomes, attempt + 1)
     ELSE [raised |-> r.raised, value |-> r.value, calls |-> attempt]

\* await embedding_generator.get_embedding(text)
EM_GetEmbedding ==
  /\ em_pc = "idle"
  /\ LET r == Retrying(em_outcomes, 1)
     IN /\ em_pc' = IF r.raised THEN "raised" ELSE "returned"
        /\ em_calls' = r.calls
        /\ em_result' = r.value
  /\ UNCHANGED em_outcomes
  /\ Others_Em

EmNext == EM_GetEmbedding

\* the provider calls that succeed
OkAttempts == {k \in 1..stop_after_attempt : em_outcomes[k].kind = "ok"}

\* C36: a failing provider is called again, up to 3 attempts in all; the
\* embedding of the first successful attempt is returned, and the zero
\* vector only after the third attempt has failed.
C36_RetriedBeforeDegrading ==
  em_pc # "idle" =>
    /\ em_pc = "returned"
    /\ IF OkAttempts # {}
       THEN LET k == CHOOSE k \in OkAttempts : \A l \in OkAttempts : k <= l
            IN em_calls = k /\ em_result = em_outcomes[k].embedding
       ELSE em_calls = stop_after_attempt /\ em_result = Zeros(dimension)


(***************************************************************************)
(* Specifications: one per component; the other components stay idle       *)
(***************************************************************************)
Init == StoreInit /\ WMIdle /\ PWInit /\ RKIdle /\ IMPIdle /\ DiskInit /\ VecIdle /\ StoInit /\ InitInit /\ ToolIdle /\ MMIdle /\ RegIdle /\ WrIdle /\ LsIdle /\ SemIdle /\ SeqIdle /\ ConsIdle /\ EmIdle
Spec == Init /\ [][StoreNext]_vars

WMSpecInit == WMInit /\ StoreIdle /\ PWInit /\ RKIdle /\ IMPIdle /\ DiskInit /\ VecIdle /\ StoInit /\ InitInit /\ ToolIdle /\ MMIdle /\ RegIdle /\ WrIdle /\ LsIdle /\ SemIdle /\ SeqIdle /\ ConsIdle /\ EmIdle
WMSpec == WMSpecInit /\ [][WMNext]_vars

PWSpecInit == PWInit /\ StoreIdle /\ WMIdle /\ RKIdle /\ IMPIdle /\ DiskInit /\ VecIdle /\ StoInit /\ InitInit /\ ToolIdle /\ MMIdle /\ RegIdle /\ WrIdle /\ LsIdle /\ SemIdle /\ SeqIdle /\ ConsIdle /\ EmIdle
PWSpec == PWSpecInit /\ [][PWNext]_vars

RKSpecInit == RKInit /\ StoreIdle /\ WMIdle /\ PWInit /\ IMPIdle /\ DiskInit /\ VecIdle /\ StoInit /\ InitInit /\ ToolIdle /\ MMIdle /\ RegIdle /\ WrIdle /\ LsIdle /\ SemIdle /\ SeqIdle /\ ConsIdle /\ EmIdle
RKSpec == RKSpecInit /\ [][RKNext]_vars

IMPSpecInit == IMPInit /\ StoreIdle /\ WMIdle /\ PWInit /\ RKIdle /\ DiskInit /\ VecIdle /\ StoInit /\ InitInit /\ ToolIdle /\ MMIdle /\ RegIdle /\ WrIdle /\ LsIdle /\ SemIdle /\ SeqIdle /\ ConsIdle /\ EmIdle
IMPSpec == IMPSpecInit /\ [][IMPNext]_vars

DiskSpecInit == DiskInit /\ StoreIdle /\ WMIdle /\ PWInit /\ RKIdle /\ IMPIdle /\ VecIdle /\ StoInit /\ InitInit /\ ToolIdle /\ MMIdle /\ RegIdle /\ WrIdle /\ LsIdle /\ SemIdle /\ SeqIdle /\ ConsIdle /\ EmIdle
DiskSpec == DiskSpecInit /\ [][DiskNext]_vars

VecSpecInit == VecInit /\ StoreIdle /\ WMIdle /\ PWInit /\ RKIdle /\ IMPIdle /\ DiskInit /\ StoInit /\ InitInit /\ ToolIdle /\ MMIdle /\ RegIdle /\ WrIdle /\ LsIdle /\ SemIdle /\ SeqIdle /\ ConsIdle /\ EmIdle
VecSpec == VecSpecInit /\ [][VecNext]_vars

StoSpecInit == StoreInit /\ StoInit /\ WMIdle /\ PWInit /\ RKIdle /\ IMPIdle /\ DiskInit /\ VecIdle /\ InitInit /\ ToolIdle /\ MMIdle /\ RegIdle /\ WrIdle /\ LsIdle /\ SemIdle /\ SeqIdle /\ ConsIdle /\ EmIdle
StoSpec == StoSpecInit /\ [][StoNext]_vars

StrSpecInit ==
  /\ StoreInit /\ StoRest /\ cache_size \in 1..MaxCacheSize
  /\ plugins = <<>> /\ RKRest
  /\ collection \in {<<>>, <<[match |-> TRUE, ok |-> TRUE, dist |-> 3]>>}
  /\ WMIdle /\ PWInit /\ IMPIdle /\ DiskInit /\ VecIdle /\ InitInit /\ ToolIdle /\ MMIdle /\ RegIdle /\ WrIdle /\ LsIdle /\ SemIdle /\ SeqIdle /\ ConsIdle /\ EmIdle
StrSpec == StrSpecInit /\ [][StrNext]_vars

InitSpecInit ==
  /\ StoreInit /\ StoInit /\ InitInit /\ ToolIdle /\ MMIdle /\ RegIdle
  /\ WMIdle /\ PWInit /\ RKIdle /\ IMPIdle /\ DiskInit /\ VecIdle /\ WrIdle /\ LsIdle /\ SemIdle /\ SeqIdle /\ ConsIdle /\ EmIdle
InitSpec == InitSpecInit /\ [][InitNext]_vars

ToolSpecInit ==
  /\ ToolInit /\ StoreIdle /\ StoInit /\ InitInit /\ MMIdle /\ RegIdle
  /\ WMIdle /\ PWInit /\ RKIdle /\ IMPIdle /\ DiskInit /\ VecIdle /\ WrIdle /\ LsIdle /\ SemIdle /\ SeqIdle /\ ConsIdle /\ EmIdle
ToolSpec == ToolSpecInit /\ [][ToolNext]_vars

MMSpecInit ==
  /\ MMInit /\ StoreIdle /\ StoInit /\ InitInit /\ ToolIdle /\ RegIdle
  /\ WMIdle /\ PWInit /\ RKIdle /\ IMPIdle /\ DiskInit /\ VecIdle /\ WrIdle /\ LsIdle /\ SemIdle /\ SeqIdle /\ ConsIdle /\ EmIdle
MMSpec == MMSpecInit /\ [][MMNext]_vars

RegSpecInit ==
  /\ RegInit /\ StoreIdle /\ StoInit /\ InitInit /\ ToolIdle /\ MMIdle
  /\ WMIdle /\ PWInit /\ RKIdle /\ IMPIdle /\ DiskInit /\ VecIdle /\ WrIdle /\ LsIdle /\ SemIdle /\ SeqIdle /\ ConsIdle /\ EmIdle
RegSpec == RegSpecInit /\ [][RegNext]_vars

WrSpecInit ==
  /\ StoreIdle /\ StoInit /\ WrInit /\ InitInit /\ ToolIdle /\ MMIdle /\ RegIdle
  /\ WMIdle /\ PWInit /\ RKIdle /\ IMPIdle /\ DiskInit /\ VecIdle /\ LsIdle /\ SemIdle /\ SeqIdle /\ ConsIdle /\ EmIdle
WrSpec == WrSpecInit /\ [][WrNext]_vars

\* the event loop runs every task that is ready: a worker whose queue is not
\* empty gets its turn, a file write ends (or raises), a sleep ends
WrFairness ==
  /\ WF_vars(SaverTake) /\ WF_vars(SaverPut)
  /\ WF_vars(WriterTake) /\ WF_vars(WR_Write) /\ WF_vars(WriterNext)
  /\ WF_vars(WriterWake)
WrFairSpec == WrSpecInit /\ [][WrNext]_vars /\ WrFairness

LsSpecInit ==
  /\ files \in [Ids -> {NoFile, 0, Corrupt}] /\ StoreRest /\ StoInit /\ LsInit
  /\ InitInit /\ ToolIdle /\ MMIdle /\ RegIdle /\ WrIdle
  /\ WMIdle /\ PWInit /\ RKIdle /\ IMPIdle /\ DiskInit /\ VecIdle /\ SemIdle /\ SeqIdle /\ ConsIdle /\ EmIdle
LsSpec == LsSpecInit /\ [][LsNext]_vars

SemSpecInit ==
  /\ SemInit /\ StoreIdle /\ StoInit /\ LsIdle
  /\ InitInit /\ ToolIdle /\ MMIdle /\ RegIdle /\ WrIdle
  /\ WMIdle /\ PWInit /\ RKIdle /\ IMPIdle /\ DiskInit /\ VecIdle /\ SeqIdle /\ ConsIdle /\ EmIdle
SemSpec == SemSpecInit /\ [][SemNext]_vars

SeqSpecInit ==
  /\ SeqInit /\ StoreIdle /\ StoInit /\ LsIdle /\ SemIdle
  /\ InitInit /\ ToolIdle /\ MMIdle /\ RegIdle /\ WrIdle
  /\ WMIdle /\ PWInit /\ RKIdle /\ IMPIdle /\ DiskInit /\ VecIdle /\ ConsIdle /\ EmIdle
SeqSpec == SeqSpecInit /\ [][SeqNext]_vars

ConsSpecInit ==
  /\ ConsInit /\ SeqIdle /\ StoreIdle /\ StoInit /\ LsIdle /\ SemIdle
  /\ InitInit /\ ToolIdle /\ MMIdle /\ RegIdle /\ WrIdle
  /\ WMIdle /\ PWInit /\ RKIdle /\ IMPIdle /\ DiskInit /\ VecIdle /\ EmIdle
ConsSpec == ConsSpecInit /\ [][ConsNext]_vars

EmSpecInit ==
  /\ EmInit /\ ConsIdle /\ SeqIdle /\ StoreIdle /\ StoInit /\ LsIdle /\ SemIdle
  /\ InitInit /\ ToolIdle /\ MMIdle /\ RegIdle /\ WrIdle
  /\ WMIdle /\ PWInit /\ RKIdle /\ IMPIdle /\ DiskInit /\ VecIdle
EmSpec == EmSpecInit /\ [][EmNext]_vars

DelSpec == StoSpecInit /\ [][DelNext]_vars
=============================================================================
